---- MODULE Spec2Model ----
(***************************************************************************)
(* Puli Meka (tigers and goats): the rule engine of services/gameLogic.ts  *)
(* and the game-state manager of App.tsx, as a state machine.              *)
(*                                                                         *)
(* A board is a total function on the 24 node ids; a node that is absent   *)
(* from the JavaScript Record (board[n] === undefined) holds EMPTY.  An    *)
(* optional number (number | null, from?: number) is a sequence of length  *)
(* at most one: <<>> is null / undefined, <<n>> is the number n.           *)
(***************************************************************************)
EXTENDS Integers, Sequences, FiniteSets, TLC

VARIABLES gameState, config, timer, track, fn

vars == <<gameState, config, timer, track, fn>>

(***************************************************************************)
(* types.ts and constants.ts                                               *)
(***************************************************************************)
GOATS_TOTAL == 18
TIGERS_TOTAL == 4
GOATS_TO_WIN == 8

NODES == [i \in 1..24 |-> i - 1]

NodeIds == {NODES[i] : i \in DOMAIN NODES}

ADJACENCY ==
  0 :> <<2, 3, 4>> @@
  1 :> <<2, 6>> @@ 2 :> <<1, 3, 0, 7>> @@ 3 :> <<2, 4, 0, 8>> @@
  4 :> <<3, 5, 0, 9>> @@ 5 :> <<4, 10>> @@
  6 :> <<1, 7>> @@ 7 :> <<6, 8, 2, 12>> @@ 8 :> <<7, 9, 3, 13>> @@
  9 :> <<8, 10, 4, 14>> @@ 10 :> <<5, 9>> @@
  11 :> <<12, 16>> @@ 12 :> <<11, 13, 7, 17>> @@ 13 :> <<12, 14, 8, 18>> @@
  14 :> <<13, 15, 9, 19>> @@ 15 :> <<14, 20>> @@
  16 :> <<11, 17>> @@ 17 :> <<16, 18, 12, 21>> @@ 18 :> <<17, 19, 13, 22>> @@
  19 :> <<18, 20, 14, 23>> @@ 20 :> <<15, 19>> @@
  21 :> <<17, 22>> @@ 22 :> <<18, 21, 23>> @@ 23 :> <<22, 19>>

\* [Start, Middle (Jumped), End]
JUMP_PATHS ==
  << <<0, 3, 8>>, <<3, 8, 13>>, <<8, 13, 18>>, <<13, 18, 22>>,
     <<0, 2, 7>>, <<2, 7, 12>>, <<7, 12, 17>>, <<12, 17, 21>>,
     <<0, 4, 9>>, <<4, 9, 14>>, <<9, 14, 19>>, <<14, 19, 23>>,
     <<1, 2, 3>>, <<2, 3, 4>>, <<3, 4, 5>>, <<6, 7, 8>>, <<7, 8, 9>>, <<8, 9, 10>>,
     <<11, 12, 13>>, <<12, 13, 14>>, <<13, 14, 15>>, <<16, 17, 18>>,
     <<17, 18, 19>>, <<18, 19, 20>>, <<21, 22, 23>> >>

EMPTY == "empty"

NULL == "null"

Player == {"tiger", "goat"}

INITIAL_BOARD == [n \in NodeIds |-> IF n \in {0, 3, 8, 13} THEN "tiger" ELSE EMPTY]

(***************************************************************************)
(* services/gameLogic.ts: core game rules                                  *)
(***************************************************************************)
\* ADJACENCY[id] || []
Adj(id) == IF id \in DOMAIN ADJACENCY THEN ADJACENCY[id] ELSE <<>>

\* The body of JUMP_PATHS.forEach in getValidMoves, from path i on: pushes
\* the far end of every path that starts or ends at id, has a goat in the
\* middle and an empty far end.
RECURSIVE PushJumps(_, _, _, _)
PushJumps(i, id, board, moves) ==
  IF i > Len(JUMP_PATHS) THEN moves
  ELSE LET start  == JUMP_PATHS[i][1]
           middle == JUMP_PATHS[i][2]
           end    == JUMP_PATHS[i][3]
           m1 == IF start = id /\ board[middle] = "goat" /\ board[end] = EMPTY
                 THEN Append(moves, end) ELSE moves
           m2 == IF end = id /\ board[middle] = "goat" /\ board[start] = EMPTY
                 THEN Append(m1, start) ELSE m1
       IN PushJumps(i + 1, id, board, m2)

\* The first getValidMoves of the file.
getValidMoves_first(id, turn, board, goatsPlaced) ==
  IF turn = "goat" /\ goatsPlaced < GOATS_TOTAL THEN <<>>
  ELSE LET moves == SelectSeq(Adj(id), LAMBDA n : board[n] = EMPTY)
       IN IF turn = "tiger" THEN PushJumps(1, id, board, moves) ELSE moves

\* getValidMoves without the test turn === 'tiger' before the jumps.
getValidMoves_anyTurn(id, turn, board, goatsPlaced) ==
  IF turn = "goat" /\ goatsPlaced < GOATS_TOTAL THEN <<>>
  ELSE LET moves == SelectSeq(Adj(id), LAMBDA n : board[n] = EMPTY)
       IN PushJumps(1, id, board, moves)

\* getValidMoves with the placement test off by one.
getValidMoves_offByOne(id, turn, board, goatsPlaced) ==
  IF turn = "goat" /\ goatsPlaced < GOATS_TOTAL - 1 THEN <<>>
  ELSE LET moves == SelectSeq(Adj(id), LAMBDA n : board[n] = EMPTY)
       IN IF turn = "tiger" THEN PushJumps(1, id, board, moves) ELSE moves

getValidMoves(id, turn, board, goatsPlaced) ==
  IF turn = "goat" /\ goatsPlaced < GOATS_TOTAL THEN <<>>
  ELSE LET moves == SelectSeq(Adj(id), LAMBDA n : board[n] = EMPTY)
       IN IF turn = "tiger" THEN PushJumps(1, id, board, moves) ELSE moves

\* Object.keys(board).map(Number).filter(id => board[id] === role): the
\* integer keys of a Record are enumerated in ascending order.
RECURSIVE PiecesFrom(_, _, _)
PiecesFrom(n, board, role) ==
  IF n > 23 THEN <<>>
  ELSE (IF board[n] = role THEN <<n>> ELSE <<>>) \o PiecesFrom(n + 1, board, role)

Pieces(board, role) == PiecesFrom(0, board, role)

\* checkWinCondition with > in place of >= in the capture test.
checkWinCondition_gt(board, goatsCaptured, turn) ==
  IF goatsCaptured > GOATS_TO_WIN
  THEN [gameOver |-> TRUE, winner |-> "tiger", reason |-> "Tigers captured 8 goats!"]
  ELSE LET tigers == Pieces(board, "tiger")
           canTigerMove ==
             \E i \in 1..Len(tigers) :
               Len(getValidMoves(tigers[i], "tiger", board, GOATS_TOTAL)) > 0
       IN IF Len(tigers) = 0
          THEN [gameOver |-> FALSE, winner |-> NULL, reason |-> ""]
          ELSE IF ~canTigerMove
               THEN [gameOver |-> TRUE, winner |-> "goat", reason |-> "Tigers are trapped!"]
               ELSE [gameOver |-> FALSE, winner |-> NULL, reason |-> ""]

\* checkWinCondition with tigers.every in place of tigers.some.
checkWinCondition_every(board, goatsCaptured, turn) ==
  IF goatsCaptured >= GOATS_TO_WIN
  THEN [gameOver |-> TRUE, winner |-> "tiger", reason |-> "Tigers captured 8 goats!"]
  ELSE LET tigers == Pieces(board, "tiger")
           canTigerMove ==
             \A i \in 1..Len(tigers) :
               Len(getValidMoves(tigers[i], "tiger", board, GOATS_TOTAL)) > 0
       IN IF Len(tigers) = 0
          THEN [gameOver |-> FALSE, winner |-> NULL, reason |-> ""]
          ELSE IF ~canTigerMove
               THEN [gameOver |-> TRUE, winner |-> "goat", reason |-> "Tigers are trapped!"]
               ELSE [gameOver |-> FALSE, winner |-> NULL, reason |-> ""]

\* checkWinCondition without the return for a board with no tiger.
checkWinCondition_noGuard(board, goatsCaptured, turn) ==
  IF goatsCaptured >= GOATS_TO_WIN
  THEN [gameOver |-> TRUE, winner |-> "tiger", reason |-> "Tigers captured 8 goats!"]
  ELSE LET tigers == Pieces(board, "tiger")
           canTigerMove ==
             \E i \in 1..Len(tigers) :
               Len(getValidMoves(tigers[i], "tiger", board, GOATS_TOTAL)) > 0
       IN IF FALSE
          THEN [gameOver |-> FALSE, winner |-> NULL, reason |-> ""]
          ELSE IF ~canTigerMove
               THEN [gameOver |-> TRUE, winner |-> "goat", reason |-> "Tigers are trapped!"]
               ELSE [gameOver |-> FALSE, winner |-> NULL, reason |-> ""]

checkWinCondition(board, goatsCaptured, turn) ==
  IF goatsCaptured >= GOATS_TO_WIN
  THEN [gameOver |-> TRUE, winner |-> "tiger", reason |-> "Tigers captured 8 goats!"]
  ELSE LET tigers == Pieces(board, "tiger")
           canTigerMove ==
             \E i \in 1..Len(tigers) :
               Len(getValidMoves(tigers[i], "tiger", board, GOATS_TOTAL)) > 0
       IN IF Len(tigers) = 0
          THEN [gameOver |-> FALSE, winner |-> NULL, reason |-> ""]
          ELSE IF ~canTigerMove
               THEN [gameOver |-> TRUE, winner |-> "goat", reason |-> "Tigers are trapped!"]
               ELSE [gameOver |-> FALSE, winner |-> NULL, reason |-> ""]

(***************************************************************************)
(* services/gameLogic.ts: helpers                                          *)
(***************************************************************************)
\* An AIMove { from?: number; to: number }.
Placement(to) == [from |-> <<>>, to |-> to]

Slide(from, to) == [from |-> <<from>>, to |-> to]

\* paths.find(p => (p[0] === from && p[2] === to) || (p[2] === from && p[0] === to)):
\* the index of the first such path, 0 when find returns undefined.
RECURSIVE FindJumpPath(_, _, _, _)
FindJumpPath(paths, i, from, to) ==
  IF i > Len(paths) THEN 0
  ELSE IF (paths[i][1] = from /\ paths[i][3] = to) \/ (paths[i][3] = from /\ paths[i][1] = to)
       THEN i
       ELSE FindJumpPath(paths, i + 1, from, to)

\* simulateMove without the test role === 'tiger'.
simulateMove_anyRole(board, move, role, currentCaptured) ==
  LET copy == board
      b1 == IF move.from # <<>> THEN [copy EXCEPT ![move.from[1]] = EMPTY] ELSE copy
      b2 == [b1 EXCEPT ![move.to] = role]
      j  == IF move.from # <<>>
            THEN FindJumpPath(JUMP_PATHS, 1, move.from[1], move.to) ELSE 0
      hit == j # 0 /\ b2[JUMP_PATHS[j][2]] = "goat"
  IN [board |-> board,
      nextBoard |-> IF hit THEN [b2 EXCEPT ![JUMP_PATHS[j][2]] = EMPTY] ELSE b2,
      nextCaptured |-> IF hit THEN currentCaptured + 1 ELSE currentCaptured]

\* simulateMove working on the board passed in instead of a copy.
simulateMove_alias(board, move, role, currentCaptured) ==
  LET copy == board
      b1 == IF move.from # <<>> THEN [copy EXCEPT ![move.from[1]] = EMPTY] ELSE copy
      b2 == [b1 EXCEPT ![move.to] = role]
      j  == IF role = "tiger" /\ move.from # <<>>
            THEN FindJumpPath(JUMP_PATHS, 1, move.from[1], move.to) ELSE 0
      hit == j # 0 /\ b2[JUMP_PATHS[j][2]] = "goat"
  IN [board |-> IF hit THEN [b2 EXCEPT ![JUMP_PATHS[j][2]] = EMPTY] ELSE b2,
      nextBoard |-> IF hit THEN [b2 EXCEPT ![JUMP_PATHS[j][2]] = EMPTY] ELSE b2,
      nextCaptured |-> IF hit THEN currentCaptured + 1 ELSE currentCaptured]

\* The result carries, besides nextBoard and nextCaptured, the board object
\* that was passed in as it is when the call returns.
simulateMove(board, move, role, currentCaptured) ==
  LET copy == board
      b1 == IF move.from # <<>> THEN [copy EXCEPT ![move.from[1]] = EMPTY] ELSE copy
      b2 == [b1 EXCEPT ![move.to] = role]
      j  == IF role = "tiger" /\ move.from # <<>>
            THEN FindJumpPath(JUMP_PATHS, 1, move.from[1], move.to) ELSE 0
      hit == j # 0 /\ b2[JUMP_PATHS[j][2]] = "goat"
  IN [board |-> board,
      nextBoard |-> IF hit THEN [b2 EXCEPT ![JUMP_PATHS[j][2]] = EMPTY] ELSE b2,
      nextCaptured |-> IF hit THEN currentCaptured + 1 ELSE currentCaptured]

\* isJump matching a path only from its start to its end.
isJump_oneWay(board, move) ==
  IF move.from = <<>> THEN FALSE
  ELSE \E i \in DOMAIN JUMP_PATHS : JUMP_PATHS[i][1] = move.from[1] /\ JUMP_PATHS[i][3] = move.to

isJump(board, move) ==
  IF move.from = <<>> THEN FALSE
  ELSE FindJumpPath(JUMP_PATHS, 1, move.from[1], move.to) # 0

(***************************************************************************)
(* services/gameLogic.ts: AI implementations.  A function that ends in     *)
(* list[Math.floor(Math.random() * list.length)] is modelled by the list   *)
(* it draws from; the empty list stands for the result null.               *)
(***************************************************************************)
\* pieces.forEach(from => getValidMoves(from, ...).forEach(to => moves.push({ from, to })))
RECURSIVE BoardMoves(_, _, _, _, _)
BoardMoves(pieces, i, board, role, goatsPlaced) ==
  IF i > Len(pieces) THEN <<>>
  ELSE LET validDestinations == getValidMoves(pieces[i], role, board, goatsPlaced)
       IN [k \in 1..Len(validDestinations) |-> Slide(pieces[i], validDestinations[k])]
          \o BoardMoves(pieces, i + 1, board, role, goatsPlaced)

\* getAllPossibleMoves with the placement test goatsPlaced <= GOATS_TOTAL.
getAllPossibleMoves_le(board, role, goatsPlaced) ==
  IF role = "goat" /\ goatsPlaced <= GOATS_TOTAL
  THEN LET free == SelectSeq(NODES, LAMBDA n : board[n] = EMPTY)
       IN [k \in 1..Len(free) |-> Placement(free[k])]
  ELSE BoardMoves(Pieces(board, role), 1, board, role, goatsPlaced)

getAllPossibleMoves(board, role, goatsPlaced) ==
  IF role = "goat" /\ goatsPlaced < GOATS_TOTAL
  THEN LET free == SelectSeq(NODES, LAMBDA n : board[n] = EMPTY)
       IN [k \in 1..Len(free) |-> Placement(free[k])]
  ELSE BoardMoves(Pieces(board, role), 1, board, role, goatsPlaced)

\* getRandomMove drawing from the tiger's moves whatever the role.
getRandomMove_tiger(board, role, goatsPlaced) == getAllPossibleMoves(board, "tiger", goatsPlaced)

getRandomMove(board, role, goatsPlaced) == getAllPossibleMoves(board, role, goatsPlaced)

\* getGreedyMove without the preference for jumps.
getGreedyMove_noFilter(board, role, goatsPlaced) ==
  LET moves == getAllPossibleMoves(board, role, goatsPlaced)
  IN IF Len(moves) = 0 THEN <<>> ELSE moves

getGreedyMove(board, role, goatsPlaced) ==
  LET moves == getAllPossibleMoves(board, role, goatsPlaced)
      jumps == SelectSeq(moves, LAMBDA m : isJump(board, m))
  IN IF Len(moves) = 0 THEN <<>>
     ELSE IF role = "tiger" /\ Len(jumps) > 0 THEN jumps ELSE moves

centerScore(id) == IF id \in {12, 13, 14, 8} THEN 2 ELSE IF id \in {2, 3, 4, 18} THEN 1 ELSE 0

\* sortMovesForPruning ordering by centerScore(to) only.
sortMovesForPruning_centerOnly(moves, board, role) ==
  LET class(c) == SelectSeq(moves, LAMBDA m : centerScore(m.to) = c)
  IN class(2) \o class(1) \o class(0)

\* Array.prototype.sort is stable: moves that compare equal keep their order.
\* The comparator orders by (jump before non-jump, for the tiger) and then
\* by centerScore(to), larger first.
sortMovesForPruning(moves, board, role) ==
  LET class(j, c) == SelectSeq(moves, LAMBDA m :
                       /\ (role = "tiger" /\ isJump(board, m)) = j
                       /\ centerScore(m.to) = c)
  IN class(TRUE, 2) \o class(TRUE, 1) \o class(TRUE, 0)
     \o class(FALSE, 2) \o class(FALSE, 1) \o class(FALSE, 0)

isReverseMove(curr, prev) ==
  IF curr.from = <<>> \/ prev.from = <<>> THEN FALSE
  ELSE curr.from[1] = prev.to /\ curr.to = prev.from[1]

RECURSIVE Sum(_)
Sum(s) == IF s = <<>> THEN 0 ELSE Head(s) + Sum(Tail(s))

\* evaluatePosition with the bonus given from 8 captures on.
evaluatePosition_lateBonus(board, aiRole, goatsCaptured, goatsPlaced) ==
  LET tigers == Pieces(board, "tiger")
      goats  == Pieces(board, "goat")
      moves == [k \in 1..Len(tigers) |-> getValidMoves(tigers[k], "tiger", board, goatsPlaced)]
      tigerMobility == Sum([k \in 1..Len(tigers) |-> Len(moves[k])])
      trappedTigers == Len(SelectSeq(moves, LAMBDA m : Len(m) = 0))
      captureOpportunities ==
        Sum([k \in 1..Len(tigers) |->
               Len(SelectSeq(moves[k], LAMBDA to :
                     FindJumpPath(JUMP_PATHS, 1, tigers[k], to) # 0))])
      coordination ==
        Sum([i \in 1..Len(tigers) |->
               Len(SelectSeq(SubSeq(tigers, i + 1, Len(tigers)), LAMBDA t :
                     \E k \in 1..Len(Adj(tigers[i])) : Adj(tigers[i])[k] = t))])
      connections ==
        Sum([k \in 1..Len(goats) |->
               Len(SelectSeq(Adj(goats[k]), LAMBDA n : board[n] = "goat"))])
      central == Len(SelectSeq(goats, LAMBDA g : g \in {12, 13, 14, 8, 18}))
  IN IF aiRole = "tiger"
     THEN goatsCaptured * 2000 + (IF goatsCaptured > 7 THEN 5000 ELSE 0)
          + captureOpportunities * 500 - trappedTigers * 1500 + tigerMobility * 30
          + coordination * 60
     ELSE 0 - goatsCaptured * 2500 + trappedTigers * 1500 - tigerMobility * 50
          - captureOpportunities * 1000 + connections * 40 + central * 70

\* evaluatePosition with node 18 left out of the central nodes.
evaluatePosition_noNode18(board, aiRole, goatsCaptured, goatsPlaced) ==
  LET tigers == Pieces(board, "tiger")
      goats  == Pieces(board, "goat")
      moves == [k \in 1..Len(tigers) |-> getValidMoves(tigers[k], "tiger", board, goatsPlaced)]
      tigerMobility == Sum([k \in 1..Len(tigers) |-> Len(moves[k])])
      trappedTigers == Len(SelectSeq(moves, LAMBDA m : Len(m) = 0))
      captureOpportunities ==
        Sum([k \in 1..Len(tigers) |->
               Len(SelectSeq(moves[k], LAMBDA to :
                     FindJumpPath(JUMP_PATHS, 1, tigers[k], to) # 0))])
      coordination ==
        Sum([i \in 1..Len(tigers) |->
               Len(SelectSeq(SubSeq(tigers, i + 1, Len(tigers)), LAMBDA t :
                     \E k \in 1..Len(Adj(tigers[i])) : Adj(tigers[i])[k] = t))])
      connections ==
        Sum([k \in 1..Len(goats) |->
               Len(SelectSeq(Adj(goats[k]), LAMBDA n : board[n] = "goat"))])
      central == Len(SelectSeq(goats, LAMBDA g : g \in {12, 13, 14, 8}))
  IN IF aiRole = "tiger"
     THEN goatsCaptured * 2000 + (IF goatsCaptured >= 7 THEN 5000 ELSE 0)
          + captureOpportunities * 500 - trappedTigers * 1500 + tigerMobility * 30
          + coordination * 60
     ELSE 0 - goatsCaptured * 2500 + trappedTigers * 1500 - tigerMobility * 50
          - captureOpportunities * 1000 + connections * 40 + central * 70

\* Object.keys lists the integer keys of the board in ascending order.
evaluatePosition(board, aiRole, goatsCaptured, goatsPlaced) ==
  LET tigers == Pieces(board, "tiger")
      goats  == Pieces(board, "goat")
      moves == [k \in 1..Len(tigers) |-> getValidMoves(tigers[k], "tiger", board, goatsPlaced)]
      tigerMobility == Sum([k \in 1..Len(tigers) |-> Len(moves[k])])
      trappedTigers == Len(SelectSeq(moves, LAMBDA m : Len(m) = 0))
      captureOpportunities ==
        Sum([k \in 1..Len(tigers) |->
               Len(SelectSeq(moves[k], LAMBDA to :
                     FindJumpPath(JUMP_PATHS, 1, tigers[k], to) # 0))])
      coordination ==
        Sum([i \in 1..Len(tigers) |->
               Len(SelectSeq(SubSeq(tigers, i + 1, Len(tigers)), LAMBDA t :
                     \E k \in 1..Len(Adj(tigers[i])) : Adj(tigers[i])[k] = t))])
      connections ==
        Sum([k \in 1..Len(goats) |->
               Len(SelectSeq(Adj(goats[k]), LAMBDA n : board[n] = "goat"))])
      central == Len(SelectSeq(goats, LAMBDA g : g \in {12, 13, 14, 8, 18}))
  IN IF aiRole = "tiger"
     THEN goatsCaptured * 2000 + (IF goatsCaptured >= 7 THEN 5000 ELSE 0)
          + captureOpportunities * 500 - trappedTigers * 1500 + tigerMobility * 30
          + coordination * 60
     ELSE 0 - goatsCaptured * 2500 + trappedTigers * 1500 - tigerMobility * 50
          - captureOpportunities * 1000 + connections * 40 + central * 70

\* Infinity and -Infinity are only compared with scores; every score lies
\* strictly between -Infinity and Infinity.
Infinity == 1000000

Max(a, b) == IF a > b THEN a ELSE b

Min(a, b) == IF a < b THEN a ELSE b

RECURSIVE minimax(_, _, _, _, _, _, _, _, _)
RECURSIVE SearchLoop(_, _, _, _, _, _, _, _, _, _, _, _)

\* The for loop of minimax from move i on, with the running maxEval or
\* minEval in best.  previousMove is <<>> for null, <<m>> for the move m.
SearchLoop(moves, i, best, alpha, beta, isMaximizing, board, depth, aiRole, goatsPlaced, goatsCaptured, previousMove) ==
  LET opponent == IF aiRole = "tiger" THEN "goat" ELSE "tiger"
      currentTurn == IF isMaximizing THEN aiRole ELSE opponent
  IN IF i > Len(moves)
     THEN IF isMaximizing
          THEN (IF best = 0 - Infinity THEN 0 - 10000 ELSE best)
          ELSE (IF best = Infinity THEN 10000 ELSE best)
     ELSE LET move == moves[i]
          IN IF /\ previousMove # <<>>
                /\ isReverseMove(move, previousMove[1])
                /\ Len(moves) > 1
             THEN SearchLoop(moves, i + 1, best, alpha, beta, isMaximizing, board, depth,
                             aiRole, goatsPlaced, goatsCaptured, previousMove)
             ELSE LET sim == simulateMove(board, move, currentTurn, goatsCaptured)
                      evalScore ==
                        minimax(sim.nextBoard, depth - 1, alpha, beta, ~isMaximizing, aiRole,
                                goatsPlaced + (IF currentTurn = "goat" /\ move.from = <<>>
                                               THEN 1 ELSE 0),
                                sim.nextCaptured, <<move>>)
                      newBest  == IF isMaximizing THEN Max(best, evalScore) ELSE Min(best, evalScore)
                      newAlpha == IF isMaximizing THEN Max(alpha, evalScore) ELSE alpha
                      newBeta  == IF isMaximizing THEN beta ELSE Min(beta, evalScore)
                  IN IF newBeta <= newAlpha
                     THEN SearchLoop(moves, Len(moves) + 1, newBest, newAlpha, newBeta,
                                     isMaximizing, board, depth, aiRole, goatsPlaced,
                                     goatsCaptured, previousMove)
                     ELSE SearchLoop(moves, i + 1, newBest, newAlpha, newBeta,
                                     isMaximizing, board, depth, aiRole, goatsPlaced,
                                     goatsCaptured, previousMove)

\* minimax with the depth check ahead of the win check.
minimax_depthFirst(board, depth, alpha, beta, isMaximizing, aiRole, goatsPlaced, goatsCaptured, previousMove) ==
  LET opponent == IF aiRole = "tiger" THEN "goat" ELSE "tiger"
      currentTurn == IF isMaximizing THEN aiRole ELSE opponent
      winState == checkWinCondition(board, goatsCaptured, currentTurn)
      moves == sortMovesForPruning(getAllPossibleMoves(board, currentTurn, goatsPlaced),
                                   board, currentTurn)
  IN IF depth = 0
     THEN evaluatePosition(board, aiRole, goatsCaptured, goatsPlaced)
     ELSE IF winState.gameOver
     THEN (IF winState.winner = aiRole THEN 20000 + depth ELSE 0 - 20000 - depth)
     ELSE IF Len(moves) = 0
     THEN (IF currentTurn = aiRole THEN 0 - 20000 ELSE 20000)
     ELSE SearchLoop(moves, 1, IF isMaximizing THEN 0 - Infinity ELSE Infinity, alpha, beta,
                     isMaximizing, board, depth, aiRole, goatsPlaced, goatsCaptured,
                     previousMove)

minimax(board, depth, alpha, beta, isMaximizing, aiRole, goatsPlaced, goatsCaptured, previousMove) ==
  LET opponent == IF aiRole = "tiger" THEN "goat" ELSE "tiger"
      currentTurn == IF isMaximizing THEN aiRole ELSE opponent
      winState == checkWinCondition(board, goatsCaptured, currentTurn)
      moves == sortMovesForPruning(getAllPossibleMoves(board, currentTurn, goatsPlaced),
                                   board, currentTurn)
  IN IF winState.gameOver
     THEN (IF winState.winner = aiRole THEN 20000 + depth ELSE 0 - 20000 - depth)
     ELSE IF depth = 0
     THEN evaluatePosition(board, aiRole, goatsCaptured, goatsPlaced)
     ELSE IF Len(moves) = 0
     THEN (IF currentTurn = aiRole THEN 0 - 20000 ELSE 20000)
     ELSE SearchLoop(moves, 1, IF isMaximizing THEN 0 - Infinity ELSE Infinity, alpha, beta,
                     isMaximizing, board, depth, aiRole, goatsPlaced, goatsCaptured,
                     previousMove)

\* The for loop of getMinimaxMove from move i on.  The result is the list
\* the returned move is drawn from (the move of the immediate-win return,
\* or bestMoves) together with the number of minimax calls made.
RECURSIVE RootLoop(_, _, _, _, _, _, _, _, _)
\* RootLoop with bestScore never updated.
RootLoop_staleBest(possibleMoves, i, bestScore, bestMoves, board, role, goatsPlaced, goatsCaptured, depth) ==
  IF i > Len(possibleMoves) THEN [result |-> bestMoves, calls |-> i - 1]
  ELSE LET move == possibleMoves[i]
           sim == simulateMove(board, move, role, goatsCaptured)
           score == minimax(sim.nextBoard, depth - 1, 0 - Infinity, Infinity, FALSE, role,
                            goatsPlaced + (IF role = "goat" /\ move.from = <<>> THEN 1 ELSE 0),
                            sim.nextCaptured, <<move>>)
       IN IF role = "tiger" /\ sim.nextCaptured >= GOATS_TO_WIN
          THEN [result |-> <<move>>, calls |-> i - 1]
          ELSE RootLoop(possibleMoves, i + 1,
                        bestScore,
                        IF score > bestScore THEN <<move>>
                        ELSE IF score = bestScore THEN Append(bestMoves, move) ELSE bestMoves,
                        board, role, goatsPlaced, goatsCaptured, depth)

RootLoop(possibleMoves, i, bestScore, bestMoves, board, role, goatsPlaced, goatsCaptured, depth) ==
  IF i > Len(possibleMoves) THEN [result |-> bestMoves, calls |-> i - 1]
  ELSE LET move == possibleMoves[i]
           sim == simulateMove(board, move, role, goatsCaptured)
           score == minimax(sim.nextBoard, depth - 1, 0 - Infinity, Infinity, FALSE, role,
                            goatsPlaced + (IF role = "goat" /\ move.from = <<>> THEN 1 ELSE 0),
                            sim.nextCaptured, <<move>>)
       IN IF role = "tiger" /\ sim.nextCaptured >= GOATS_TO_WIN
          THEN [result |-> <<move>>, calls |-> i - 1]
          ELSE RootLoop(possibleMoves, i + 1,
                        IF score > bestScore THEN score ELSE bestScore,
                        IF score > bestScore THEN <<move>>
                        ELSE IF score = bestScore THEN Append(bestMoves, move) ELSE bestMoves,
                        board, role, goatsPlaced, goatsCaptured, depth)

searchRoot(board, role, goatsPlaced, goatsCaptured, depth) ==
  RootLoop(sortMovesForPruning(getAllPossibleMoves(board, role, goatsPlaced), board, role),
           1, 0 - Infinity, <<>>, board, role, goatsPlaced, goatsCaptured, depth)

getMinimaxMove(board, role, goatsPlaced, goatsCaptured, depth) ==
  searchRoot(board, role, goatsPlaced, goatsCaptured, depth).result

\* getMinimaxMove with the scores left open.  The immediate-win return is as
\* the code takes it: the first move, in pruning order, that brings the tiger
\* to GOATS_TO_WIN.  Otherwise every root move is kept as a possible member
\* of bestMoves.  The game explores the hard AI with this list, a superset of
\* what the search of depth 4 or 5 returns.
getMinimaxMoveOpen(board, role, goatsPlaced, goatsCaptured) ==
  LET possibleMoves == sortMovesForPruning(getAllPossibleMoves(board, role, goatsPlaced), board, role)
      wins == SelectSeq(possibleMoves, LAMBDA m :
                role = "tiger"
                /\ simulateMove(board, m, role, goatsCaptured).nextCaptured >= GOATS_TO_WIN)
  IN IF Len(wins) > 0 THEN <<wins[1]>> ELSE possibleMoves

(***************************************************************************)
(* The search once more, with a record of the calls it makes.  minimaxTrace *)
(* returns the score of minimax, its own depth argument, and one entry per *)
(* call made: the depth and goatsPlaced the call received, the way it      *)
(* returned (kind), the number of candidate moves of its loop, the number  *)
(* of candidates it recursed into (searched), the candidates the continue  *)
(* statement passed over (skipped), the depths its callees received        *)
(* (called) and whether the loop ended in a cut-off.  With prune = FALSE   *)
(* the break of the cut-off is not taken; the code is the search with      *)
(* prune = TRUE.                                                           *)
(***************************************************************************)
\* The condition of the continue statement of both loops.
skipsReverse_always(move, moves, previousMove) ==
  previousMove # <<>> /\ isReverseMove(move, previousMove[1])

skipsReverse_placements(move, moves, previousMove) ==
  /\ previousMove # <<>>
  /\ move.to = (IF previousMove[1].from = <<>> THEN previousMove[1].to ELSE previousMove[1].from[1])
  /\ Len(moves) > 1

skipsReverse(move, moves, previousMove) ==
  /\ previousMove # <<>>
  /\ isReverseMove(move, previousMove[1])
  /\ Len(moves) > 1

\* The condition of the break statement of both loops.
cutOff_early(alpha, beta) == alpha > 0 - Infinity /\ beta < Infinity

cutOff(alpha, beta) == beta <= alpha

\* The goatsPlaced argument of the recursive call.
nextGoatsPlaced_everyGoatMove(goatsPlaced, currentTurn, move) ==
  goatsPlaced + (IF currentTurn = "goat" THEN 1 ELSE 0)

nextGoatsPlaced(goatsPlaced, currentTurn, move) ==
  goatsPlaced + (IF currentTurn = "goat" /\ move.from = <<>> THEN 1 ELSE 0)

\* The score minimax returns when the side to move has no move.
noMovesScore_draw(currentTurn, aiRole) == 0

noMovesScore(currentTurn, aiRole) == IF currentTurn = aiRole THEN 0 - 20000 ELSE 20000

\* The previousMove argument of the recursive call with the caller's own
\* previousMove handed on.
nextPreviousMove_own(move, previousMove) == previousMove

\* The previousMove argument of the recursive call: the move just simulated.
nextPreviousMove(move, previousMove) == <<move>>

RECURSIVE minimaxTrace(_, _, _, _, _, _, _, _, _, _)
RECURSIVE SearchLoopTrace(_, _, _, _, _, _, _, _, _, _, _, _, _, _, _)

SearchLoopTrace(moves, i, best, alpha, beta, isMaximizing, board, depth, aiRole, goatsPlaced, goatsCaptured, previousMove, prune, seen, calls) ==
  LET opponent == IF aiRole = "tiger" THEN "goat" ELSE "tiger"
      currentTurn == IF isMaximizing THEN aiRole ELSE opponent
      call(sn, cut) == [depth |-> depth, goatsPlaced |-> goatsPlaced, kind |-> "loop",
                        candidates |-> Len(moves), searched |-> sn.searched,
                        skipped |-> sn.skipped, called |-> sn.called, cut |-> cut,
                        turn |-> currentTurn,
                        previousBy |-> IF previousMove = <<>> THEN NULL
                                       ELSE board[previousMove[1].to],
                        reverses |-> IF previousMove = <<>> THEN 0
                                     ELSE Cardinality({k \in DOMAIN moves :
                                            isReverseMove(moves[k], previousMove[1])})]
  IN IF i > Len(moves)
     THEN [score |-> IF isMaximizing
                     THEN (IF best = 0 - Infinity THEN 0 - 10000 ELSE best)
                     ELSE (IF best = Infinity THEN 10000 ELSE best),
           depth |-> depth,
           calls |-> calls \cup {call(seen, FALSE)}]
     ELSE LET move == moves[i]
          IN IF skipsReverse(move, moves, previousMove)
             THEN SearchLoopTrace(moves, i + 1, best, alpha, beta, isMaximizing, board, depth,
                                  aiRole, goatsPlaced, goatsCaptured, previousMove, prune,
                                  [seen EXCEPT !.skipped = Append(@, move)], calls)
             ELSE LET sim == simulateMove(board, move, currentTurn, goatsCaptured)
                      sub == minimaxTrace(sim.nextBoard, depth - 1, alpha, beta, ~isMaximizing,
                                          aiRole, nextGoatsPlaced(goatsPlaced, currentTurn, move),
                                          sim.nextCaptured,
                                          nextPreviousMove(move, previousMove), prune)
                      evalScore == sub.score
                      newBest  == IF isMaximizing THEN Max(best, evalScore) ELSE Min(best, evalScore)
                      newAlpha == IF isMaximizing THEN Max(alpha, evalScore) ELSE alpha
                      newBeta  == IF isMaximizing THEN beta ELSE Min(beta, evalScore)
                      newCalls == calls \cup sub.calls
                      newSeen  == [seen EXCEPT !.searched = @ + 1,
                                               !.called = @ \cup {sub.depth}]
                  IN IF prune /\ cutOff(newAlpha, newBeta)
                     THEN [score |-> newBest, depth |-> depth,
                           calls |-> newCalls \cup {call(newSeen, TRUE)}]
                     ELSE SearchLoopTrace(moves, i + 1, newBest, newAlpha, newBeta,
                                          isMaximizing, board, depth, aiRole, goatsPlaced,
                                          goatsCaptured, previousMove, prune, newSeen,
                                          newCalls)

minimaxTrace(board, depth, alpha, beta, isMaximizing, aiRole, goatsPlaced, goatsCaptured, previousMove, prune) ==
  LET opponent == IF aiRole = "tiger" THEN "goat" ELSE "tiger"
      currentTurn == IF isMaximizing THEN aiRole ELSE opponent
      winState == checkWinCondition(board, goatsCaptured, currentTurn)
      moves == sortMovesForPruning(getAllPossibleMoves(board, currentTurn, goatsPlaced),
                                   board, currentTurn)
      call(kind) == [depth |-> depth, goatsPlaced |-> goatsPlaced, kind |-> kind,
                     candidates |-> 0, searched |-> 0, skipped |-> <<>>, called |-> {},
                     cut |-> FALSE, turn |-> currentTurn, previousBy |-> NULL, reverses |-> 0]
  IN IF winState.gameOver
     THEN [score |-> IF winState.winner = aiRole THEN 20000 + depth ELSE 0 - 20000 - depth,
           depth |-> depth, calls |-> {call("win")}]
     ELSE IF depth = 0
     THEN [score |-> evaluatePosition(board, aiRole, goatsCaptured, goatsPlaced),
           depth |-> depth, calls |-> {call("leaf")}]
     ELSE IF Len(moves) = 0
     THEN [score |-> noMovesScore(currentTurn, aiRole), depth |-> depth,
           calls |-> {call("stuck")}]
     ELSE SearchLoopTrace(moves, 1, IF isMaximizing THEN 0 - Infinity ELSE Infinity, alpha,
                          beta, isMaximizing, board, depth, aiRole, goatsPlaced, goatsCaptured,
                          previousMove, prune,
                          [searched |-> 0, skipped |-> <<>>, called |-> {}], {})

\* PlacementScore without the immediate-danger penalty.
PlacementScore_noDanger(board, nodeId) ==
  LET adjTigers == Len(SelectSeq(Adj(nodeId), LAMBDA n : board[n] = "tiger"))
      adjGoats  == Len(SelectSeq(Adj(nodeId), LAMBDA n : board[n] = "goat"))
  IN adjTigers * 200 + adjGoats * 50
     + (IF nodeId \in {8, 12, 13, 14, 18} THEN 100 ELSE 0)
     + (IF nodeId \in {2, 3, 4, 7, 9} THEN 60 ELSE 0)

\* The score of one empty node in getBestPlacementGoat, without the term
\* Math.random() * 10.
PlacementScore(board, nodeId) ==
  LET immediateDanger ==
        \E i \in 1..Len(JUMP_PATHS) :
          LET start == JUMP_PATHS[i][1]  middle == JUMP_PATHS[i][2]  end == JUMP_PATHS[i][3]
          IN /\ middle = nodeId
             /\ \/ board[start] = "tiger" /\ board[end] = EMPTY
                \/ board[end] = "tiger" /\ board[start] = EMPTY
      adjTigers == Len(SelectSeq(Adj(nodeId), LAMBDA n : board[n] = "tiger"))
      adjGoats  == Len(SelectSeq(Adj(nodeId), LAMBDA n : board[n] = "goat"))
  IN IF immediateDanger THEN 0 - 10000
     ELSE adjTigers * 200 + adjGoats * 50
          + (IF nodeId \in {8, 12, 13, 14, 18} THEN 100 ELSE 0)
          + (IF nodeId \in {2, 3, 4, 7, 9} THEN 60 ELSE 0)

\* Every score is a multiple of 10 and the random term lies in [0, 10), so
\* the node kept in bestNode is one of those with the largest score; with no
\* empty node bestNode stays -1.
getBestPlacementGoat(board) ==
  LET emptyNodes == SelectSeq(NODES, LAMBDA n : board[n] = EMPTY)
      best == SelectSeq(emptyNodes, LAMBDA n :
                \A k \in 1..Len(emptyNodes) :
                  PlacementScore(board, emptyNodes[k]) <= PlacementScore(board, n))
  IN IF Len(emptyNodes) = 0 THEN <<Placement(0 - 1)>>
     ELSE [k \in 1..Len(best) |-> Placement(best[k])]

\* aiCall with the two search depths exchanged.
aiCall_swapDepth(gs, difficulty, aiRole) ==
  IF difficulty = "easy" THEN [routine |-> "getRandomMove", depth |-> 0]
  ELSE IF difficulty = "medium" THEN [routine |-> "getGreedyMove", depth |-> 0]
  ELSE IF aiRole = "goat" /\ gs.goatsPlaced < GOATS_TOTAL
       THEN [routine |-> "getBestPlacementGoat", depth |-> 0]
  ELSE LET isPlacementPhase == gs.goatsPlaced < GOATS_TOTAL
           searchDepth == IF isPlacementPhase THEN 5 ELSE 4
       IN [routine |-> "getMinimaxMove", depth |-> searchDepth]

\* The routine calculateAIMove hands the move to, with the search depth it
\* passes (0 for the routines that take none).
aiCall(gs, difficulty, aiRole) ==
  IF difficulty = "easy" THEN [routine |-> "getRandomMove", depth |-> 0]
  ELSE IF difficulty = "medium" THEN [routine |-> "getGreedyMove", depth |-> 0]
  ELSE IF aiRole = "goat" /\ gs.goatsPlaced < GOATS_TOTAL
       THEN [routine |-> "getBestPlacementGoat", depth |-> 0]
  ELSE LET isPlacementPhase == gs.goatsPlaced < GOATS_TOTAL
           searchDepth == IF isPlacementPhase THEN 4 ELSE 5
       IN [routine |-> "getMinimaxMove", depth |-> searchDepth]

calculateAIMove(gs, difficulty, aiRole) ==
  LET call == aiCall(gs, difficulty, aiRole)
  IN CASE call.routine = "getRandomMove" -> getRandomMove(gs.board, aiRole, gs.goatsPlaced)
       [] call.routine = "getGreedyMove" -> getGreedyMove(gs.board, aiRole, gs.goatsPlaced)
       [] call.routine = "getBestPlacementGoat" -> getBestPlacementGoat(gs.board)
       [] call.routine = "getMinimaxMove" ->
            getMinimaxMove(gs.board, aiRole, gs.goatsPlaced, gs.goatsCaptured, call.depth)

\* calculateAIMove with the search replaced by getMinimaxMoveOpen.
calculateAIMoveOpen(gs, difficulty, aiRole) ==
  IF aiCall(gs, difficulty, aiRole).routine = "getMinimaxMove"
  THEN getMinimaxMoveOpen(gs.board, aiRole, gs.goatsPlaced, gs.goatsCaptured)
  ELSE calculateAIMove(gs, difficulty, aiRole)

(***************************************************************************)
(* App.tsx: the game-state manager                                         *)
(***************************************************************************)
InitialGameState ==
  [board |-> INITIAL_BOARD, turn |-> "goat", goatsPlaced |-> 0, goatsCaptured |-> 0,
   selectedNode |-> <<>>, validMoves |-> <<>>, gameOver |-> FALSE, winner |-> NULL,
   history |-> <<>>]

InitialConfig == [mode |-> "pvp", aiRole |-> "tiger", difficulty |-> "easy"]

\* The inline table without the two slanted paths that start at node 0.
jumpPath_noApex ==
  << <<0, 3, 8>>, <<3, 8, 13>>, <<8, 13, 18>>, <<13, 18, 22>>,
     <<2, 7, 12>>, <<7, 12, 17>>, <<12, 17, 21>>,
     <<4, 9, 14>>, <<9, 14, 19>>, <<14, 19, 23>>,
     <<1, 2, 3>>, <<2, 3, 4>>, <<3, 4, 5>>, <<6, 7, 8>>, <<7, 8, 9>>, <<8, 9, 10>>,
     <<11, 12, 13>>, <<12, 13, 14>>, <<13, 14, 15>>, <<16, 17, 18>>,
     <<17, 18, 19>>, <<18, 19, 20>>, <<21, 22, 23>> >>

\* The jump-path table written out inside executeMove.
jumpPath ==
  << <<0, 3, 8>>, <<3, 8, 13>>, <<8, 13, 18>>, <<13, 18, 22>>,
     <<0, 2, 7>>, <<2, 7, 12>>, <<7, 12, 17>>, <<12, 17, 21>>,
     <<0, 4, 9>>, <<4, 9, 14>>, <<9, 14, 19>>, <<14, 19, 23>>,
     <<1, 2, 3>>, <<2, 3, 4>>, <<3, 4, 5>>, <<6, 7, 8>>, <<7, 8, 9>>, <<8, 9, 10>>,
     <<11, 12, 13>>, <<12, 13, 14>>, <<13, 14, 15>>, <<16, 17, 18>>,
     <<17, 18, 19>>, <<18, 19, 20>>, <<21, 22, 23>> >>

\* executeMove without delete newBoard[from].
executeMove_keepSource(gs, prev, from, to) ==
  IF gs.gameOver THEN prev
  ELSE LET b1 == gs.board
           j  == IF from # <<>> /\ gs.turn = "tiger"
                 THEN FindJumpPath(jumpPath, 1, from[1], to) ELSE 0
           hit == j # 0 /\ b1[jumpPath[j][2]] = "goat"
           b2 == IF hit THEN [b1 EXCEPT ![jumpPath[j][2]] = EMPTY] ELSE b1
           captured == IF hit THEN gs.goatsCaptured + 1 ELSE gs.goatsCaptured
           placed == IF from = <<>> THEN gs.goatsPlaced + 1 ELSE gs.goatsPlaced
           newBoard == [b2 EXCEPT ![to] = gs.turn]
           nextTurn == IF gs.turn = "tiger" THEN "goat" ELSE "tiger"
           winState == checkWinCondition(newBoard, captured, nextTurn)
       IN [prev EXCEPT !.board = newBoard, !.turn = nextTurn,
                       !.goatsPlaced = placed, !.goatsCaptured = captured,
                       !.selectedNode = <<>>, !.validMoves = <<>>,
                       !.gameOver = winState.gameOver, !.winner = winState.winner]

\* executeMove without delete newBoard[capturedId].
executeMove_keepCaptured(gs, prev, from, to) ==
  IF gs.gameOver THEN prev
  ELSE LET b1 == IF from # <<>> THEN [gs.board EXCEPT ![from[1]] = EMPTY] ELSE gs.board
           j  == IF from # <<>> /\ gs.turn = "tiger"
                 THEN FindJumpPath(jumpPath, 1, from[1], to) ELSE 0
           hit == j # 0 /\ b1[jumpPath[j][2]] = "goat"
           b2 == b1
           captured == IF hit THEN gs.goatsCaptured + 1 ELSE gs.goatsCaptured
           placed == IF from = <<>> THEN gs.goatsPlaced + 1 ELSE gs.goatsPlaced
           newBoard == [b2 EXCEPT ![to] = gs.turn]
           nextTurn == IF gs.turn = "tiger" THEN "goat" ELSE "tiger"
           winState == checkWinCondition(newBoard, captured, nextTurn)
       IN [prev EXCEPT !.board = newBoard, !.turn = nextTurn,
                       !.goatsPlaced = placed, !.goatsCaptured = captured,
                       !.selectedNode = <<>>, !.validMoves = <<>>,
                       !.gameOver = winState.gameOver, !.winner = winState.winner]

\* executeMove without the increment of goatsPlaced.
executeMove_noPlacedCount(gs, prev, from, to) ==
  IF gs.gameOver THEN prev
  ELSE LET b1 == IF from # <<>> THEN [gs.board EXCEPT ![from[1]] = EMPTY] ELSE gs.board
           j  == IF from # <<>> /\ gs.turn = "tiger"
                 THEN FindJumpPath(jumpPath, 1, from[1], to) ELSE 0
           hit == j # 0 /\ b1[jumpPath[j][2]] = "goat"
           b2 == IF hit THEN [b1 EXCEPT ![jumpPath[j][2]] = EMPTY] ELSE b1
           captured == IF hit THEN gs.goatsCaptured + 1 ELSE gs.goatsCaptured
           placed == gs.goatsPlaced
           newBoard == [b2 EXCEPT ![to] = gs.turn]
           nextTurn == IF gs.turn = "tiger" THEN "goat" ELSE "tiger"
           winState == checkWinCondition(newBoard, captured, nextTurn)
       IN [prev EXCEPT !.board = newBoard, !.turn = nextTurn,
                       !.goatsPlaced = placed, !.goatsCaptured = captured,
                       !.selectedNode = <<>>, !.validMoves = <<>>,
                       !.gameOver = winState.gameOver, !.winner = winState.winner]

\* executeMove with the turn kept after a capture.
executeMove_captureKeepsTurn(gs, prev, from, to) ==
  IF gs.gameOver THEN prev
  ELSE LET b1 == IF from # <<>> THEN [gs.board EXCEPT ![from[1]] = EMPTY] ELSE gs.board
           j  == IF from # <<>> /\ gs.turn = "tiger"
                 THEN FindJumpPath(jumpPath, 1, from[1], to) ELSE 0
           hit == j # 0 /\ b1[jumpPath[j][2]] = "goat"
           b2 == IF hit THEN [b1 EXCEPT ![jumpPath[j][2]] = EMPTY] ELSE b1
           captured == IF hit THEN gs.goatsCaptured + 1 ELSE gs.goatsCaptured
           placed == IF from = <<>> THEN gs.goatsPlaced + 1 ELSE gs.goatsPlaced
           newBoard == [b2 EXCEPT ![to] = gs.turn]
           nextTurn == IF hit THEN gs.turn ELSE IF gs.turn = "tiger" THEN "goat" ELSE "tiger"
           winState == checkWinCondition(newBoard, captured, nextTurn)
       IN [prev EXCEPT !.board = newBoard, !.turn = nextTurn,
                       !.goatsPlaced = placed, !.goatsCaptured = captured,
                       !.selectedNode = <<>>, !.validMoves = <<>>,
                       !.gameOver = winState.gameOver, !.winner = winState.winner]

\* executeMove of the render whose game state is gs, applied when the
\* current game state is prev: the new game state is computed from gs and
\* written over prev by setGameState(prev => ({ ...prev, ... })).
executeMove(gs, prev, from, to) ==
  IF gs.gameOver THEN prev
  ELSE LET b1 == IF from # <<>> THEN [gs.board EXCEPT ![from[1]] = EMPTY] ELSE gs.board
           j  == IF from # <<>> /\ gs.turn = "tiger"
                 THEN FindJumpPath(jumpPath, 1, from[1], to) ELSE 0
           hit == j # 0 /\ b1[jumpPath[j][2]] = "goat"
           b2 == IF hit THEN [b1 EXCEPT ![jumpPath[j][2]] = EMPTY] ELSE b1
           captured == IF hit THEN gs.goatsCaptured + 1 ELSE gs.goatsCaptured
           placed == IF from = <<>> THEN gs.goatsPlaced + 1 ELSE gs.goatsPlaced
           newBoard == [b2 EXCEPT ![to] = gs.turn]
           nextTurn == IF gs.turn = "tiger" THEN "goat" ELSE "tiger"
           winState == checkWinCondition(newBoard, captured, nextTurn)
       IN [prev EXCEPT !.board = newBoard, !.turn = nextTurn,
                       !.goatsPlaced = placed, !.goatsCaptured = captured,
                       !.selectedNode = <<>>, !.validMoves = <<>>,
                       !.gameOver = winState.gameOver, !.winner = winState.winner]

\* The dependency list of the AI effect.
Deps(gs, cfg) == <<gs.turn, gs.gameOver, cfg.mode, cfg.aiRole, cfg.difficulty>>

\* The AI effect run in a render with game state gs and configuration cfg:
\* the timer it leaves pending, with the values its callback closes over.
AIEffect(gs, cfg, trk) ==
  IF ~gs.gameOver /\ cfg.mode = "pve" /\ gs.turn = cfg.aiRole
  THEN <<[gameState |-> gs, difficulty |-> cfg.difficulty, aiRole |-> cfg.aiRole,
          track |-> trk]>>
  ELSE <<>>

\* Commit without the cleanup of the effect: a pending timer is never cleared.
Commit_noCleanup(oldGs, oldCfg, newGs, newCfg, newTrk, tmr) ==
  IF tmr # <<>> THEN tmr
  ELSE IF Deps(newGs, newCfg) # Deps(oldGs, oldCfg) THEN AIEffect(newGs, newCfg, newTrk) ELSE tmr

\* The pending timer after the render that follows a state update: the
\* effect is cleaned up (clearTimeout) and run again only when one of its
\* dependencies changed; otherwise the timer of the earlier render stays.
Commit(oldGs, oldCfg, newGs, newCfg, newTrk, tmr) ==
  IF Deps(newGs, newCfg) # Deps(oldGs, oldCfg) THEN AIEffect(newGs, newCfg, newTrk) ELSE tmr

(***************************************************************************)
(* Exploration bound.  The games explored follow one of the recorded games *)
(* of Lines and leave it by at most MaxDev moves; track records the games  *)
(* followed, the number of moves made and the number of moves off the      *)
(* record.  Every move of a recorded game is subject to the guards of the  *)
(* handlers like any other move.                                           *)
(***************************************************************************)
MaxDev == 1

\* Tigers win by the eighth capture, after all 18 goats are placed.
LineCapture ==
  << Placement(19), Slide(3, 2), Placement(5), Slide(13, 12), Placement(15), Slide(0, 4),
     Placement(23), Slide(8, 13), Placement(8), Slide(13, 3), Placement(8), Slide(3, 13),
     Placement(14), Slide(2, 3), Placement(18), Slide(13, 22), Placement(2), Slide(3, 1),
     Placement(11), Slide(1, 2), Placement(20), Slide(4, 0), Placement(16), Slide(22, 18),
     Placement(22), Slide(2, 3), Placement(4), Slide(0, 9), Placement(0), Slide(18, 13),
     Placement(6), Slide(9, 10), Placement(2), Slide(3, 1), Placement(17), Slide(12, 21),
     Slide(19, 18), Slide(13, 8), Slide(0, 2), Slide(1, 3) >>

\* Goats win during placement.
LineTrapPlace ==
  << Placement(14), Slide(0, 2), Placement(15), Slide(8, 7), Placement(9), Slide(7, 6),
     Placement(1), Slide(13, 12), Placement(17), Slide(6, 7), Placement(5), Slide(3, 0),
     Placement(10), Slide(7, 8), Placement(13), Slide(8, 3), Placement(6), Slide(12, 7),
     Placement(12), Slide(7, 8), Placement(4), Slide(8, 7), Placement(8) >>

\* All 18 goats are placed without a capture; after the tiger's slide 6 -> 7
\* the only empty nodes are 1 and 6, whose neighbours are each other and the
\* tigers on 2 and 7.
LineStalemate ==
  << Placement(4), Slide(0, 2), Placement(0), Slide(8, 7), Placement(8), Slide(7, 6),
     Placement(5), Slide(6, 7), Placement(9), Slide(7, 6), Placement(10), Slide(6, 7),
     Placement(11), Slide(7, 6), Placement(12), Slide(6, 7), Placement(14), Slide(7, 6),
     Placement(15), Slide(6, 7), Placement(16), Slide(7, 6), Placement(17), Slide(6, 7),
     Placement(18), Slide(7, 6), Placement(19), Slide(6, 7), Placement(20), Slide(7, 6),
     Placement(21), Slide(6, 7), Placement(22), Slide(7, 6), Placement(23), Slide(6, 7) >>

Lines == <<LineCapture, LineTrapPlace, LineStalemate>>

\* Before the first move every recorded game is still being followed.
NewTrack == [lines |-> DOMAIN Lines, step |-> 0, dev |-> 0]

\* The recorded games, among those followed so far, whose next move is move.
Following(trk, move) ==
  {l \in trk.lines : trk.step < Len(Lines[l]) /\ Lines[l][trk.step + 1] = move}

Allowed(trk, move) == Following(trk, move) # {} \/ trk.dev < MaxDev

Advance(trk, move) ==
  IF Following(trk, move) # {}
  THEN [trk EXCEPT !.lines = Following(trk, move), !.step = @ + 1]
  ELSE [lines |-> {}, step |-> trk.step + 1, dev |-> trk.dev + 1]

\* A piece may be picked up when a recorded game moves it next, or when a
\* move off the record is still available.
MaySelect(trk, id) ==
  \/ trk.dev < MaxDev
  \/ \E l \in trk.lines : trk.step < Len(Lines[l]) /\ Lines[l][trk.step + 1].from = <<id>>

(***************************************************************************)
(* Actions: one per handler                                                *)
(***************************************************************************)
NoCall == [name |-> "none"]

Init ==
  /\ gameState = InitialGameState
  /\ config = InitialConfig
  /\ timer = <<>>
  /\ track = NewTrack
  /\ fn = NoCall

\* A move made from a click: executeMove of the current render.
ClickMove(from, to) ==
  /\ Allowed(track, [from |-> from, to |-> to])
  /\ gameState' = executeMove(gameState, gameState, from, to)
  /\ track' = Advance(track, [from |-> from, to |-> to])
  /\ timer' = Commit(gameState, config, gameState', config, track', timer)

\* handleNodeClick without the return on the AI's turn.
handleNodeClick_noTurnGuard(id) ==
  /\ ~gameState.gameOver
  /\ LET piece == gameState.board[id]
     IN IF piece = gameState.turn
        THEN /\ ~(gameState.turn = "goat" /\ gameState.goatsPlaced < GOATS_TOTAL)
             /\ MaySelect(track, id)
             /\ gameState' = [gameState EXCEPT
                                !.selectedNode = <<id>>,
                                !.validMoves = getValidMoves(id, gameState.turn, gameState.board,
                                                             gameState.goatsPlaced)]
             /\ timer' = Commit(gameState, config, gameState', config, track, timer)
             /\ UNCHANGED track
        ELSE IF piece = EMPTY /\ gameState.turn = "goat" /\ gameState.goatsPlaced < GOATS_TOTAL
        THEN ClickMove(<<>>, id)
        ELSE IF /\ gameState.selectedNode # <<>>
                /\ \E k \in 1..Len(gameState.validMoves) : gameState.validMoves[k] = id
        THEN ClickMove(gameState.selectedNode, id)
        ELSE /\ gameState' = [gameState EXCEPT !.selectedNode = <<>>, !.validMoves = <<>>]
             /\ timer' = Commit(gameState, config, gameState', config, track, timer)
             /\ UNCHANGED track
  /\ UNCHANGED <<config, fn>>

handleNodeClick(id) ==
  /\ ~gameState.gameOver
  /\ ~(config.mode = "pve" /\ gameState.turn = config.aiRole)
  /\ LET piece == gameState.board[id]
     IN IF piece = gameState.turn
        THEN /\ ~(gameState.turn = "goat" /\ gameState.goatsPlaced < GOATS_TOTAL)
             /\ MaySelect(track, id)
             /\ gameState' = [gameState EXCEPT
                                !.selectedNode = <<id>>,
                                !.validMoves = getValidMoves(id, gameState.turn, gameState.board,
                                                             gameState.goatsPlaced)]
             /\ timer' = Commit(gameState, config, gameState', config, track, timer)
             /\ UNCHANGED track
        ELSE IF piece = EMPTY /\ gameState.turn = "goat" /\ gameState.goatsPlaced < GOATS_TOTAL
        THEN ClickMove(<<>>, id)
        ELSE IF /\ gameState.selectedNode # <<>>
                /\ \E k \in 1..Len(gameState.validMoves) : gameState.validMoves[k] = id
        THEN ClickMove(gameState.selectedNode, id)
        ELSE /\ gameState' = [gameState EXCEPT !.selectedNode = <<>>, !.validMoves = <<>>]
             /\ timer' = Commit(gameState, config, gameState', config, track, timer)
             /\ UNCHANGED track
  /\ UNCHANGED <<config, fn>>

NodeClick == \E id \in NodeIds : handleNodeClick(id)

\* The callback of the AI effect's setTimeout, with the game state and the
\* configuration of the render that started the timer.
AITimer ==
  /\ timer # <<>>
  /\ LET c == timer[1]
         moves == calculateAIMoveOpen(c.gameState, c.difficulty, c.aiRole)
     IN IF Len(moves) = 0
        THEN /\ timer' = <<>>
             /\ UNCHANGED <<gameState, track>>
        ELSE \E i \in 1..Len(moves) :
               /\ Allowed(c.track, moves[i])
               /\ gameState' = executeMove(c.gameState, gameState, moves[i].from, moves[i].to)
               /\ track' = Advance(c.track, moves[i])
               /\ timer' = Commit(gameState, config, gameState', config, track', <<>>)
  /\ UNCHANGED <<config, fn>>

\* Reset, Restart Game, Play Again and the close button of the game-over modal.
resetGame ==
  /\ gameState' = InitialGameState
  /\ track' = NewTrack
  /\ timer' = Commit(gameState, config, gameState', config, track', timer)
  /\ UNCHANGED <<config, fn>>

Surrender ==
  /\ ~gameState.gameOver
  /\ gameState' = [gameState EXCEPT
                     !.gameOver = TRUE,
                     !.winner = IF gameState.turn = "goat" THEN "tiger" ELSE "goat"]
  /\ timer' = Commit(gameState, config, gameState', config, track, timer)
  /\ UNCHANGED <<config, track, fn>>

\* setConfig with a changed mode, aiRole or difficulty.  The render with
\* the new configuration still has the old game state; its effects call
\* resetGame and run the AI effect, and the render after the reset follows.
SetConfig(newCfg) ==
  /\ newCfg # config
  /\ config' = newCfg
  /\ gameState' = InitialGameState
  /\ track' = NewTrack
  /\ timer' = Commit(gameState, newCfg, gameState', newCfg, track',
                     Commit(gameState, config, gameState, newCfg, track, timer))
  /\ UNCHANGED fn

\* Menu.setMode and the Switch Mode button of the game-over modal.
setMode == \E m \in {"pvp", "pve"} : SetConfig([config EXCEPT !.mode = m])

\* Menu.setDifficulty; the buttons are rendered in pve mode only.
setDifficulty ==
  /\ config.mode = "pve"
  /\ \E d \in {"easy", "medium", "hard"} : SetConfig([config EXCEPT !.difficulty = d])

\* The Swap Roles button, rendered in pve mode only.
handleSwapRole ==
  /\ config.mode = "pve"
  /\ SetConfig([config EXCEPT !.aiRole = IF config.aiRole = "tiger" THEN "goat" ELSE "tiger"])

Next ==
  \/ NodeClick
  \/ AITimer
  \/ resetGame
  \/ Surrender
  \/ setMode
  \/ setDifficulty
  \/ handleSwapRole

Spec == Init /\ [][Next]_vars

(***************************************************************************)
(* The rule functions applied to arbitrary boards.  The boards carry at    *)
(* most MaxPieces pieces, all of them on the nodes of FnRegion (the top    *)
(* of the board: the apex 0, the corners 1 and 6 and the nodes between).   *)
(* Tigers are not limited to four, and a board may have none.              *)
(***************************************************************************)
MaxPieces == 4

FnRegion == {0, 1, 2, 3, 4, 6, 7, 8}

BoardOf(tigers, goats) ==
  [n \in NodeIds |-> IF n \in tigers THEN "tiger" ELSE IF n \in goats THEN "goat" ELSE EMPTY]

FnBoards ==
  {BoardOf(p[1], p[2] \ p[1]) : p \in
     {p \in (SUBSET FnRegion) \X (SUBSET FnRegion) :
        p[1] \subseteq p[2] /\ Cardinality(p[2]) <= MaxPieces}}

\* Node ids passed to getValidMoves: the 24 nodes and one id off the board.
FnIds == NodeIds \cup {24}

FnPlaced == {0, GOATS_TOTAL - 1, GOATS_TOTAL}

FnCaptured == {0, GOATS_TO_WIN - 1, GOATS_TO_WIN, GOATS_TO_WIN + 1}

\* Moves passed to simulateMove: placements and slides between two
\* different nodes of the region, legal or not.
FnMoves ==
  {Placement(to) : to \in FnRegion}
  \cup {Slide(m[1], m[2]) : m \in {m \in FnRegion \X FnRegion : m[1] # m[2]}}

InitFn ==
  /\ gameState = InitialGameState
  /\ config = InitialConfig
  /\ timer = <<>>
  /\ track = NewTrack
  /\ fn \in {[name |-> "input", board |-> b] : b \in FnBoards}

CallGetValidMoves ==
  /\ fn.name = "input"
  /\ \E id \in FnIds, turn \in Player, goatsPlaced \in FnPlaced :
       fn' = [name |-> "getValidMoves", board |-> fn.board, id |-> id, turn |-> turn,
              goatsPlaced |-> goatsPlaced,
              result |-> getValidMoves(id, turn, fn.board, goatsPlaced),
              resultFirst |-> getValidMoves_first(id, turn, fn.board, goatsPlaced)]
  /\ UNCHANGED <<gameState, config, timer, track>>

CallCheckWinCondition ==
  /\ fn.name = "input"
  /\ \E goatsCaptured \in FnCaptured, turn \in Player :
       fn' = [name |-> "checkWinCondition", board |-> fn.board,
              goatsCaptured |-> goatsCaptured, turn |-> turn,
              result |-> checkWinCondition(fn.board, goatsCaptured, turn)]
  /\ UNCHANGED <<gameState, config, timer, track>>

CallSimulateMove ==
  /\ fn.name = "input"
  /\ \E move \in FnMoves, role \in Player, currentCaptured \in {0, GOATS_TO_WIN - 1} :
       fn' = [name |-> "simulateMove", board |-> fn.board, move |-> move, role |-> role,
              currentCaptured |-> currentCaptured,
              result |-> simulateMove(fn.board, move, role, currentCaptured)]
  /\ UNCHANGED <<gameState, config, timer, track>>

NextFn ==
  \/ CallGetValidMoves
  \/ CallCheckWinCondition
  \/ CallSimulateMove

SpecFn == InitFn /\ [][NextFn]_vars

(***************************************************************************)
(* The AI functions applied to positions of play: the game states along    *)
(* the recorded games and the game states one legal move away from them.   *)
(***************************************************************************)
\* The game states of the recorded game line from its move k on, gs being
\* the game state before that move.
RECURSIVE PlayLine(_, _, _)
PlayLine(line, k, gs) ==
  IF k > Len(line) THEN {gs}
  ELSE {gs} \cup PlayLine(line, k + 1, executeMove(gs, gs, line[k].from, line[k].to))

LinePositions == UNION {PlayLine(Lines[l], 1, InitialGameState) : l \in DOMAIN Lines}

Successors(gs) ==
  LET moves == getAllPossibleMoves(gs.board, gs.turn, gs.goatsPlaced)
  IN {executeMove(gs, gs, moves[k].from, moves[k].to) : k \in 1..Len(moves)}

AIPositions == LinePositions \cup UNION {Successors(gs) : gs \in LinePositions}

Difficulty == {"easy", "medium", "hard"}

InitAI ==
  /\ gameState = InitialGameState
  /\ config = InitialConfig
  /\ timer = <<>>
  /\ track = NewTrack
  /\ fn \in {[name |-> "input", gs |-> gs] : gs \in AIPositions}

CallGetAllPossibleMoves ==
  /\ fn.name = "input"
  /\ \E role \in Player :
       fn' = [name |-> "getAllPossibleMoves", gs |-> fn.gs, role |-> role,
              result |-> getAllPossibleMoves(fn.gs.board, role, fn.gs.goatsPlaced)]
  /\ UNCHANGED <<gameState, config, timer, track>>

CallEvaluatePosition ==
  /\ fn.name = "input"
  /\ \E aiRole \in Player :
       fn' = [name |-> "evaluatePosition", gs |-> fn.gs, aiRole |-> aiRole,
              result |-> evaluatePosition(fn.gs.board, aiRole, fn.gs.goatsCaptured,
                                          fn.gs.goatsPlaced)]
  /\ UNCHANGED <<gameState, config, timer, track>>

\* The search of depth 4 or 5 is run through calculateAIMove on the
\* positions with at most MaxEmpty empty nodes.
MaxEmpty == 3

Crowded(board) == Cardinality({n \in NodeIds : board[n] = EMPTY}) <= MaxEmpty

CallCalculateAIMove ==
  /\ fn.name = "input"
  /\ \E difficulty \in Difficulty, aiRole \in Player :
       /\ aiCall(fn.gs, difficulty, aiRole).routine = "getMinimaxMove" => Crowded(fn.gs.board)
       /\ fn' = [name |-> "calculateAIMove", gs |-> fn.gs, difficulty |-> difficulty,
                 aiRole |-> aiRole,
                 call |-> aiCall(fn.gs, difficulty, aiRole),
                 result |-> calculateAIMove(fn.gs, difficulty, aiRole)]
  /\ UNCHANGED <<gameState, config, timer, track>>

NextAI ==
  \/ CallGetAllPossibleMoves
  \/ CallEvaluatePosition
  \/ CallCalculateAIMove

SpecAI == InitAI /\ [][NextAI]_vars

(***************************************************************************)
(* The search applied to late positions, with depths up to MaxDepth.       *)
(***************************************************************************)
MaxDepth == 1

\* The finished games and the positions with at most one goat left to place.
SearchPositions ==
  {gs \in AIPositions : gs.gameOver \/ gs.goatsPlaced >= GOATS_TOTAL - 1}

InitSearch ==
  /\ gameState = InitialGameState
  /\ config = InitialConfig
  /\ timer = <<>>
  /\ track = NewTrack
  /\ fn \in {[name |-> "input", gs |-> gs] : gs \in SearchPositions}

CallGetMinimaxMove ==
  /\ fn.name = "input"
  /\ \E role \in Player, depth \in 1..MaxDepth :
       LET root == searchRoot(fn.gs.board, role, fn.gs.goatsPlaced, fn.gs.goatsCaptured, depth)
       IN fn' = [name |-> "getMinimaxMove", gs |-> fn.gs, role |-> role, depth |-> depth,
                 result |-> root.result, calls |-> root.calls]
  /\ UNCHANGED <<gameState, config, timer, track>>

CallMinimax ==
  /\ fn.name = "input"
  /\ \E depth \in 0..MaxDepth, isMaximizing \in BOOLEAN, aiRole \in Player :
       fn' = [name |-> "minimax", gs |-> fn.gs, depth |-> depth,
              isMaximizing |-> isMaximizing, aiRole |-> aiRole,
              result |-> minimax(fn.gs.board, depth, 0 - Infinity, Infinity, isMaximizing,
                                 aiRole, fn.gs.goatsPlaced, fn.gs.goatsCaptured, <<>>)]
  /\ UNCHANGED <<gameState, config, timer, track>>

NextSearch ==
  \/ CallGetMinimaxMove
  \/ CallMinimax

SpecSearch == InitSearch /\ [][NextSearch]_vars

(***************************************************************************)
(* The traced search applied to the positions with no goat captured and at *)
(* most one goat left to place: two or three nodes are empty, and the      *)
(* search of depth 4 or 5 is small.                                        *)
(***************************************************************************)
TracePositions ==
  {gs \in AIPositions : gs.goatsCaptured = 0 /\ gs.goatsPlaced >= GOATS_TOTAL - 1}

InitTrace ==
  /\ gameState = InitialGameState
  /\ config = InitialConfig
  /\ timer = <<>>
  /\ track = NewTrack
  /\ fn \in {[name |-> "input", gs |-> gs] : gs \in TracePositions}

\* The values of previousMove tried on a call of minimax with the candidate
\* list moves: none, the reverse of every candidate slide, and for every
\* candidate a placement on its destination and a slide away from it.
PreviousMoves(moves) ==
  {<<>>}
  \cup {<<Slide(moves[k].to, moves[k].from[1])>> : k \in {j \in DOMAIN moves : moves[j].from # <<>>}}
  \cup {<<Placement(moves[k].to)>> : k \in DOMAIN moves}
  \cup {<<Slide(moves[k].to, 0)>> : k \in DOMAIN moves}

CallMinimaxTrace ==
  /\ fn.name = "input"
  /\ \E depth \in 0..MaxDepth + 1, isMaximizing \in BOOLEAN, aiRole \in Player :
       LET currentTurn == IF isMaximizing THEN aiRole
                          ELSE IF aiRole = "tiger" THEN "goat" ELSE "tiger"
           moves == getAllPossibleMoves(fn.gs.board, currentTurn, fn.gs.goatsPlaced)
       IN \E previousMove \in PreviousMoves(moves) :
            LET trace == minimaxTrace(fn.gs.board, depth, 0 - Infinity, Infinity, isMaximizing,
                                      aiRole, fn.gs.goatsPlaced, fn.gs.goatsCaptured,
                                      previousMove, TRUE)
            IN fn' = [name |-> "minimaxTrace", gs |-> fn.gs, depth |-> depth,
                      isMaximizing |-> isMaximizing, aiRole |-> aiRole,
                      previousMove |-> previousMove, result |-> trace.score,
                      calls |-> trace.calls]
  /\ UNCHANGED <<gameState, config, timer, track>>

NextTrace == CallMinimaxTrace

SpecTrace == InitTrace /\ [][NextTrace]_vars

\* The call of minimax getMinimaxMove makes for one root move.
rootScore(board, move, role, goatsPlaced, goatsCaptured, depth, prune) ==
  LET sim == simulateMove(board, move, role, goatsCaptured)
  IN minimaxTrace(sim.nextBoard, depth - 1, 0 - Infinity, Infinity, FALSE, role,
                  goatsPlaced + (IF role = "goat" /\ move.from = <<>> THEN 1 ELSE 0),
                  sim.nextCaptured, <<move>>, prune)

\* The depths getMinimaxMove is run with: the depth calculateAIMove passes
\* for the position and the depths up to MaxDepth + 2.
RootDepths(gs, role) ==
  (1..MaxDepth + 2)
  \cup (IF aiCall(gs, "hard", role).routine = "getMinimaxMove"
        THEN {aiCall(gs, "hard", role).depth} ELSE {})

\* getMinimaxMove with the score and the calls of every root move it hands
\* to minimax (those before an immediate-win return), and the score of the
\* same call without cut-offs.
CallRootScores ==
  /\ fn.name = "input"
  /\ \E role \in Player :
       \E depth \in RootDepths(fn.gs, role) :
         LET moves == sortMovesForPruning(
                        getAllPossibleMoves(fn.gs.board, role, fn.gs.goatsPlaced),
                        fn.gs.board, role)
             root == searchRoot(fn.gs.board, role, fn.gs.goatsPlaced, fn.gs.goatsCaptured, depth)
             trace == [k \in 1..root.calls |->
                         rootScore(fn.gs.board, moves[k], role, fn.gs.goatsPlaced,
                                   fn.gs.goatsCaptured, depth, TRUE)]
             plain == [k \in 1..root.calls |->
                         rootScore(fn.gs.board, moves[k], role, fn.gs.goatsPlaced,
                                   fn.gs.goatsCaptured, depth, FALSE)]
         IN fn' = [name |-> "rootScores", gs |-> fn.gs, role |-> role, depth |-> depth,
                   moves |-> moves, result |-> root.result, scored |-> root.calls,
                   trace |-> trace, plain |-> plain]
  /\ UNCHANGED <<gameState, config, timer, track>>

NextRoot == CallRootScores

SpecRoot == InitTrace /\ [][NextRoot]_vars

(***************************************************************************)
(* Properties                                                              *)
(***************************************************************************)
SeqSet(s) == {s[k] : k \in DOMAIN s}

NoDuplicates(s) == \A i, k \in DOMAIN s : i # k => s[i] # s[k]

Count(board, role) == Cardinality({n \in NodeIds : board[n] = role})

\* The empty neighbours of id.
EmptyNeighbours(id, board) == {n \in SeqSet(Adj(id)) : board[n] = EMPTY}

\* The jump paths between a and b, in either direction.
PathsBetween(a, b) ==
  {i \in DOMAIN JUMP_PATHS :
     \/ JUMP_PATHS[i][1] = a /\ JUMP_PATHS[i][3] = b
     \/ JUMP_PATHS[i][3] = a /\ JUMP_PATHS[i][1] = b}

\* The empty nodes a piece on id reaches by jumping over a goat.
JumpDestinations(id, board) ==
  {e \in NodeIds : /\ board[e] = EMPTY
                   /\ \E i \in PathsBetween(id, e) : board[JUMP_PATHS[i][2]] = "goat"}

\* C1: in every reachable game state each node holds at most one piece
\* (empty, one tiger or one goat) and exactly 4 tigers are on the board.
C1_OnePieceFourTigers ==
  /\ gameState.board \in [NodeIds -> Player \cup {EMPTY}]
  /\ Count(gameState.board, "tiger") = TIGERS_TOTAL

\* A game in which tigers have left their start nodes and have captured.
C1_Witness ==
  /\ gameState.goatsCaptured >= 1
  /\ Count(gameState.board, "goat") >= 2
  /\ \E n \in {0, 3, 8, 13} : gameState.board[n] # "tiger"

\* C2: in every reachable game state the number of goats on the board is
\* goatsPlaced - goatsCaptured, goatsPlaced <= 18 and goatsCaptured <= 8.
C2_GoatCount ==
  /\ Count(gameState.board, "goat") = gameState.goatsPlaced - gameState.goatsCaptured
  /\ gameState.goatsPlaced <= GOATS_TOTAL
  /\ gameState.goatsCaptured <= GOATS_TO_WIN

\* Both counters at their caps.
C2_Witness ==
  /\ gameState.goatsPlaced = GOATS_TOTAL
  /\ gameState.goatsCaptured = GOATS_TO_WIN

\* The board b2 is the board of gs after one legal move of gs.turn.
OneLegalMove(gs, b2) ==
  IF gs.turn = "goat" /\ gs.goatsPlaced < GOATS_TOTAL
  THEN \E n \in NodeIds :
         gs.board[n] = EMPTY /\ b2 = [gs.board EXCEPT ![n] = "goat"]
  ELSE \E from \in NodeIds, to \in NodeIds :
         /\ gs.board[from] = gs.turn
         /\ to \in SeqSet(getValidMoves(from, gs.turn, gs.board, gs.goatsPlaced))
         /\ b2[from] = EMPTY
         /\ b2[to] = gs.turn
         /\ \A n \in NodeIds \ {from, to} :
              \/ b2[n] = gs.board[n]
              \/ /\ gs.turn = "tiger"
                 /\ \E i \in PathsBetween(from, to) : JUMP_PATHS[i][2] = n
                 /\ gs.board[n] = "goat"
                 /\ b2[n] = EMPTY

\* C3: every board change made by executeMove (from a click or from the AI
\* timer) is exactly one legal move of the side to move from the game state
\* that is current when the move is applied.
C3_BoardChangeIsOneLegalMove ==
  [][(NodeClick \/ AITimer) /\ gameState'.board # gameState.board
       => OneLegalMove(gameState, gameState'.board)]_vars

\* C4: for the tiger getValidMoves lists exactly the empty neighbours of id
\* and the jump destinations of id, none of them twice; for the goat with
\* all 18 placed it lists exactly the empty neighbours and no jump
\* destination.
C4_ValidMovesExact ==
  fn.name = "getValidMoves" =>
    /\ fn.turn = "tiger" =>
         /\ SeqSet(fn.result) = EmptyNeighbours(fn.id, fn.board) \cup JumpDestinations(fn.id, fn.board)
         /\ NoDuplicates(fn.result)
    /\ fn.turn = "goat" /\ fn.goatsPlaced = GOATS_TOTAL =>
         /\ SeqSet(fn.result) = EmptyNeighbours(fn.id, fn.board)
         /\ SeqSet(fn.result) \cap JumpDestinations(fn.id, fn.board) = {}

\* A tiger with a slide, a jump along a path it starts and a jump along a
\* path it ends.
C4_Witness ==
  /\ fn.name = "getValidMoves"
  /\ fn.turn = "tiger"
  /\ fn.id \in NodeIds
  /\ fn.board[fn.id] = "tiger"
  /\ EmptyNeighbours(fn.id, fn.board) # {}
  /\ \E i, k \in DOMAIN JUMP_PATHS :
       /\ JUMP_PATHS[i][1] = fn.id /\ JUMP_PATHS[i][3] \in SeqSet(fn.result)
       /\ fn.board[JUMP_PATHS[i][2]] = "goat"
       /\ JUMP_PATHS[k][3] = fn.id /\ JUMP_PATHS[k][1] \in SeqSet(fn.result)
       /\ fn.board[JUMP_PATHS[k][2]] = "goat"

\* C5: getValidMoves (either variant in the file) returns the empty list
\* for the goat whenever goatsPlaced < 18.
C5_NoGoatMovesWhilePlacing ==
  fn.name = "getValidMoves" /\ fn.turn = "goat" /\ fn.goatsPlaced < GOATS_TOTAL =>
    fn.result = <<>> /\ fn.resultFirst = <<>>

\* A goat with an empty neighbour, asked about with 17 goats placed.
C5_Witness ==
  /\ fn.name = "getValidMoves"
  /\ fn.turn = "goat"
  /\ fn.goatsPlaced = GOATS_TOTAL - 1
  /\ fn.id \in NodeIds
  /\ fn.board[fn.id] = "goat"
  /\ EmptyNeighbours(fn.id, fn.board) # {}

\* Some tiger on the board has a slide or a jump.
SomeTigerCanMove(board) ==
  \E t \in NodeIds :
    /\ board[t] = "tiger"
    /\ EmptyNeighbours(t, board) \cup JumpDestinations(t, board) # {}

\* C6: with goatsCaptured >= 8 checkWinCondition reports a tiger win for
\* every board and every turn.
C6_CaptureThresholdWins ==
  fn.name = "checkWinCondition" /\ fn.goatsCaptured >= GOATS_TO_WIN =>
    fn.result.gameOver /\ fn.result.winner = "tiger"

\* The threshold reached on a board whose tigers are all blocked.
C6_Witness ==
  /\ fn.name = "checkWinCondition"
  /\ fn.goatsCaptured = GOATS_TO_WIN
  /\ Count(fn.board, "tiger") >= 1
  /\ ~SomeTigerCanMove(fn.board)

\* C7: with at least one tiger and goatsCaptured < 8, checkWinCondition
\* reports a goat win exactly when no tiger has a slide or a jump, and
\* otherwise reports not over with winner null.
C7_TrappedIffGoatWin ==
  fn.name = "checkWinCondition" /\ fn.goatsCaptured < GOATS_TO_WIN
    /\ Count(fn.board, "tiger") >= 1 =>
      IF SomeTigerCanMove(fn.board)
      THEN ~fn.result.gameOver /\ fn.result.winner = NULL
      ELSE fn.result.gameOver /\ fn.result.winner = "goat"

\* Two tigers, one blocked, the other with no slide but with a jump.
C7_Witness ==
  /\ fn.name = "checkWinCondition"
  /\ fn.goatsCaptured = GOATS_TO_WIN - 1
  /\ \E t \in NodeIds :
       /\ fn.board[t] = "tiger"
       /\ EmptyNeighbours(t, fn.board) \cup JumpDestinations(t, fn.board) = {}
  /\ \E t \in NodeIds :
       /\ fn.board[t] = "tiger"
       /\ EmptyNeighbours(t, fn.board) = {}
       /\ JumpDestinations(t, fn.board) # {}

\* C8: for a board with no tiger and goatsCaptured < 8, checkWinCondition
\* reports not over, with winner null.
C8_NoTigersNotOver ==
  fn.name = "checkWinCondition" /\ fn.goatsCaptured < GOATS_TO_WIN
    /\ Count(fn.board, "tiger") = 0 =>
      ~fn.result.gameOver /\ fn.result.winner = NULL

\* A board of goats only.
C8_Witness ==
  /\ fn.name = "checkWinCondition"
  /\ fn.goatsCaptured < GOATS_TO_WIN
  /\ Count(fn.board, "tiger") = 0
  /\ Count(fn.board, "goat") = MaxPieces

\* C9: simulateMove never lowers the captured count and raises it by at
\* most 1, and only when the mover is the tiger, the move has a source,
\* (from, to) are the ends of a jump path and its middle held a goat on the
\* input board; that goat is then absent from the resulting board.
C9_CaptureOnlyByTigerJump ==
  fn.name = "simulateMove" =>
    /\ fn.result.nextCaptured \in {fn.currentCaptured, fn.currentCaptured + 1}
    /\ fn.result.nextCaptured = fn.currentCaptured + 1 =>
         /\ fn.role = "tiger"
         /\ fn.move.from # <<>>
         /\ \E i \in PathsBetween(fn.move.from[1], fn.move.to) :
              /\ fn.board[JUMP_PATHS[i][2]] = "goat"
              /\ fn.result.nextBoard[JUMP_PATHS[i][2]] = EMPTY

\* The capture that brings the count to 8.
C9_Witness ==
  /\ fn.name = "simulateMove"
  /\ fn.result.nextCaptured = GOATS_TO_WIN
  /\ fn.move.from # <<>>
  /\ fn.board[fn.move.from[1]] = "tiger"
  /\ fn.board[fn.move.to] = EMPTY

\* C10: simulateMove leaves the board passed in unchanged; the board it
\* returns has the source emptied, the destination set to the mover, the
\* jumped middle emptied on a capture, and every other node as in the input.
C10_SimulateMoveFrame ==
  fn.name = "simulateMove" =>
    /\ fn.result.board = fn.board
    /\ fn.result.nextBoard[fn.move.to] = fn.role
    /\ fn.move.from # <<>> => fn.result.nextBoard[fn.move.from[1]] = EMPTY
    /\ \A n \in NodeIds \ ({fn.move.to} \cup SeqSet(fn.move.from)) :
         \/ fn.result.nextBoard[n] = fn.board[n]
         \/ /\ fn.result.nextCaptured = fn.currentCaptured + 1
            /\ \E i \in PathsBetween(fn.move.from[1], fn.move.to) : JUMP_PATHS[i][2] = n
            /\ fn.result.nextBoard[n] = EMPTY

\* A capture on a board with a bystander that stays where it is.
C10_Witness ==
  /\ fn.name = "simulateMove"
  /\ fn.result.nextCaptured = fn.currentCaptured + 1
  /\ Count(fn.board, "goat") >= 2
  /\ Count(fn.result.nextBoard, "goat") = Count(fn.board, "goat") - 1

\* C11: on every step that is not a reset (a click, the AI timer, a
\* surrender) goatsPlaced and goatsCaptured do not decrease, goatsPlaced
\* grows by exactly 1 when a goat is placed and by nothing otherwise and
\* stays at most 18, and goatsCaptured grows by at most 1.
C11_CountersMonotone ==
  [][(NodeClick \/ AITimer \/ Surrender) =>
       /\ gameState'.goatsPlaced \in {gameState.goatsPlaced, gameState.goatsPlaced + 1}
       /\ gameState'.goatsPlaced <= GOATS_TOTAL
       /\ gameState'.goatsCaptured \in {gameState.goatsCaptured, gameState.goatsCaptured + 1}
       /\ Count(gameState'.board, "goat") > Count(gameState.board, "goat")
            => gameState'.goatsPlaced = gameState.goatsPlaced + 1]_vars

\* The legal moves of role: a placement on each empty node while the goat
\* is placing, otherwise the slides of its pieces to empty neighbours and,
\* for the tiger, the jumps over a goat to an empty node.
LegalMoves(board, role, goatsPlaced) ==
  IF role = "goat" /\ goatsPlaced < GOATS_TOTAL
  THEN {Placement(n) : n \in {n \in NodeIds : board[n] = EMPTY}}
  ELSE {Slide(p[1], p[2]) : p \in
          {p \in NodeIds \X NodeIds :
             /\ board[p[1]] = role
             /\ p[2] \in EmptyNeighbours(p[1], board)
                         \cup (IF role = "tiger" THEN JumpDestinations(p[1], board) ELSE {})}}

\* The legal tiger moves that capture a goat.
Captures(board) ==
  {Slide(p[1], p[2]) : p \in
     {p \in NodeIds \X NodeIds :
        board[p[1]] = "tiger" /\ p[2] \in JumpDestinations(p[1], board)}}

\* C12: with difficulty easy, calculateAIMove returns for either role a
\* legal move of that role in the given state, and returns null only when
\* that role has no legal move.
C12_EasyMoveIsLegal ==
  fn.name = "calculateAIMove" /\ fn.difficulty = "easy" =>
    /\ SeqSet(fn.result) \subseteq LegalMoves(fn.gs.board, fn.aiRole, fn.gs.goatsPlaced)
    /\ fn.result = <<>> => LegalMoves(fn.gs.board, fn.aiRole, fn.gs.goatsPlaced) = {}

\* The easy AI asked for a goat move with all goats placed, with a goat it
\* can slide and tigers on the board that could slide and jump.
C12_Witness ==
  /\ fn.name = "calculateAIMove"
  /\ fn.difficulty = "easy"
  /\ fn.aiRole = "goat"
  /\ fn.gs.goatsPlaced = GOATS_TOTAL
  /\ fn.result # <<>>
  /\ Captures(fn.gs.board) # {}

\* C13: for the goat with goatsPlaced < 18 getAllPossibleMoves returns
\* exactly one placement for each empty node and no slide; in every other
\* case it returns exactly the slides and jumps (from, to) of the pieces of
\* that role, none of them twice.
C13_AllPossibleMovesExact ==
  fn.name = "getAllPossibleMoves" =>
    /\ SeqSet(fn.result) = LegalMoves(fn.gs.board, fn.role, fn.gs.goatsPlaced)
    /\ NoDuplicates(fn.result)
    /\ fn.role = "goat" /\ fn.gs.goatsPlaced < GOATS_TOTAL =>
         /\ \A k \in DOMAIN fn.result : fn.result[k].from = <<>>
         /\ Len(fn.result) = Count(fn.gs.board, EMPTY)
    /\ ~(fn.role = "goat" /\ fn.gs.goatsPlaced < GOATS_TOTAL) =>
         \A k \in DOMAIN fn.result : fn.result[k].from # <<>>

\* The goat's moves with one goat left to place, on a board where goats
\* have an empty neighbour.
C13_Witness ==
  /\ fn.name = "getAllPossibleMoves"
  /\ fn.role = "goat"
  /\ fn.gs.goatsPlaced = GOATS_TOTAL - 1
  /\ Len(fn.result) >= 2
  /\ \E g \in NodeIds : fn.gs.board[g] = "goat" /\ EmptyNeighbours(g, fn.gs.board) # {}

\* C14: with difficulty medium and aiRole tiger, whenever some legal tiger
\* move captures a goat calculateAIMove returns a capturing move; when no
\* capture is legal, or aiRole is goat, it returns a member of the legal
\* moves of aiRole (and null only when there is none).
C14_MediumPrefersCapture ==
  fn.name = "calculateAIMove" /\ fn.difficulty = "medium" =>
    IF fn.aiRole = "tiger" /\ Captures(fn.gs.board) # {}
    THEN fn.result # <<>> /\ SeqSet(fn.result) \subseteq Captures(fn.gs.board)
    ELSE /\ SeqSet(fn.result) \subseteq LegalMoves(fn.gs.board, fn.aiRole, fn.gs.goatsPlaced)
         /\ fn.result = <<>> => LegalMoves(fn.gs.board, fn.aiRole, fn.gs.goatsPlaced) = {}

\* The medium tiger with a capture and a slide to choose from.
C14_Witness ==
  /\ fn.name = "calculateAIMove"
  /\ fn.difficulty = "medium"
  /\ fn.aiRole = "tiger"
  /\ fn.result # <<>>
  /\ Captures(fn.gs.board) # {}
  /\ LegalMoves(fn.gs.board, "tiger", fn.gs.goatsPlaced) \ Captures(fn.gs.board) # {}

\* C15: with difficulty hard, calculateAIMove uses getBestPlacementGoat (and
\* no search) exactly when aiRole is goat and goatsPlaced < 18; in every
\* other case it runs getMinimaxMove, with depth 4 when goatsPlaced < 18 and
\* depth 5 when goatsPlaced = 18.  The other difficulties use neither.
C15_HardDispatch ==
  fn.name = "calculateAIMove" =>
    IF fn.difficulty = "hard"
    THEN IF fn.aiRole = "goat" /\ fn.gs.goatsPlaced < GOATS_TOTAL
         THEN /\ fn.call = [routine |-> "getBestPlacementGoat", depth |-> 0]
              /\ \A k \in DOMAIN fn.result : fn.result[k].from = <<>>
         ELSE /\ fn.call.routine = "getMinimaxMove"
              /\ fn.gs.goatsPlaced < GOATS_TOTAL => fn.call.depth = 4
              /\ fn.gs.goatsPlaced = GOATS_TOTAL => fn.call.depth = 5
              /\ SeqSet(fn.result) \subseteq
                   LegalMoves(fn.gs.board, fn.aiRole, fn.gs.goatsPlaced)
    ELSE fn.call.routine \notin {"getBestPlacementGoat", "getMinimaxMove"}

\* The hard tiger searching with one goat left to place.
C15_Witness ==
  /\ fn.name = "calculateAIMove"
  /\ fn.difficulty = "hard"
  /\ fn.aiRole = "tiger"
  /\ fn.gs.goatsPlaced = GOATS_TOTAL - 1
  /\ fn.call.routine = "getMinimaxMove"
  /\ fn.result # <<>>

\* C16: for the tiger with goatsCaptured = 7 and a legal capturing jump,
\* getMinimaxMove returns a capturing move, which brings the count to 8,
\* and has made no minimax call when it returns.
C16_WinningCaptureFirst ==
  fn.name = "getMinimaxMove" /\ fn.role = "tiger"
    /\ fn.gs.goatsCaptured = GOATS_TO_WIN - 1 /\ Captures(fn.gs.board) # {} =>
      /\ Len(fn.result) = 1
      /\ fn.result[1] \in Captures(fn.gs.board)
      /\ simulateMove(fn.gs.board, fn.result[1], "tiger", fn.gs.goatsCaptured).nextCaptured
           = GOATS_TO_WIN
      /\ fn.calls = 0

\* Seven goats captured, and the tiger has a capture and a slide to a node
\* of larger centerScore than any capture's destination.
C16_Witness ==
  /\ fn.name = "getMinimaxMove"
  /\ fn.role = "tiger"
  /\ fn.gs.goatsCaptured = GOATS_TO_WIN - 1
  /\ Captures(fn.gs.board) # {}
  /\ \E m \in LegalMoves(fn.gs.board, "tiger", fn.gs.goatsPlaced) \ Captures(fn.gs.board) :
       \A c \in Captures(fn.gs.board) : centerScore(m.to) > centerScore(c.to)

\* Node n is the middle of a jump path with a tiger on one end and an empty
\* node on the other.
Danger(board, n) ==
  \E i \in DOMAIN JUMP_PATHS :
    /\ JUMP_PATHS[i][2] = n
    /\ \/ board[JUMP_PATHS[i][1]] = "tiger" /\ board[JUMP_PATHS[i][3]] = EMPTY
       \/ board[JUMP_PATHS[i][3]] = "tiger" /\ board[JUMP_PATHS[i][1]] = EMPTY

\* C17: for the hard goat AI during placement, whenever some empty node is
\* not in immediate danger, getBestPlacementGoat returns an empty node that
\* is not in immediate danger, and no legal tiger move on the board with the
\* goat placed there captures that goat.
C17_SafePlacement ==
  fn.name = "calculateAIMove" /\ fn.call.routine = "getBestPlacementGoat"
    /\ (\E n \in NodeIds : fn.gs.board[n] = EMPTY /\ ~Danger(fn.gs.board, n)) =>
      /\ fn.result # <<>>
      /\ \A k \in DOMAIN fn.result :
           /\ fn.result[k].from = <<>>
           /\ fn.result[k].to \in NodeIds
           /\ fn.gs.board[fn.result[k].to] = EMPTY
           /\ ~Danger(fn.gs.board, fn.result[k].to)
           /\ LET placed == [fn.gs.board EXCEPT ![fn.result[k].to] = "goat"]
              IN \A c \in Captures(placed) :
                   simulateMove(placed, c, "tiger", fn.gs.goatsCaptured)
                     .nextBoard[fn.result[k].to] = "goat"

\* A placement with safe nodes and with a node in danger next to two tigers,
\* which scores highest once the penalty is left out.
C17_Witness ==
  /\ fn.name = "calculateAIMove"
  /\ fn.call.routine = "getBestPlacementGoat"
  /\ \E n \in NodeIds : fn.gs.board[n] = EMPTY /\ ~Danger(fn.gs.board, n)
  /\ \E n \in NodeIds :
       /\ fn.gs.board[n] = EMPTY
       /\ Danger(fn.gs.board, n)
       /\ Cardinality({t \in SeqSet(Adj(n)) : fn.gs.board[t] = "tiger"}) >= 2

\* C18: in every reachable game state calculateAIMove returns null for the
\* side to move, whatever the difficulty, only if checkWinCondition reports
\* the state as game over.
C18_NullOnlyWhenOver ==
  \A difficulty \in Difficulty :
    calculateAIMoveOpen(gameState, difficulty, gameState.turn) = <<>> =>
      checkWinCondition(gameState.board, gameState.goatsCaptured, gameState.turn).gameOver

\* The board is terminal: eight goats captured, or tigers on the board and
\* none of them with a move.
Terminal(board, goatsCaptured) ==
  \/ goatsCaptured >= GOATS_TO_WIN
  \/ Count(board, "tiger") >= 1 /\ ~SomeTigerCanMove(board)

\* C19: on a terminal board minimax returns 20000 + depth when the winner
\* is aiRole and -20000 - depth when the winner is the opponent, at depth 0
\* too; on a non-terminal board at depth 0 it returns evaluatePosition.
C19_WinCheckBeforeDepthCheck ==
  fn.name = "minimax" =>
    IF Terminal(fn.gs.board, fn.gs.goatsCaptured)
    THEN LET winner == IF fn.gs.goatsCaptured >= GOATS_TO_WIN THEN "tiger" ELSE "goat"
         IN fn.result = IF winner = fn.aiRole THEN 20000 + fn.depth ELSE 0 - 20000 - fn.depth
    ELSE fn.depth = 0 =>
           fn.result = evaluatePosition(fn.gs.board, fn.aiRole, fn.gs.goatsCaptured,
                                        fn.gs.goatsPlaced)

\* A lost position (the tigers are trapped) scored for the tiger at depth 0.
C19_Witness ==
  /\ fn.name = "minimax"
  /\ fn.depth = 0
  /\ fn.aiRole = "tiger"
  /\ fn.gs.goatsCaptured < GOATS_TO_WIN
  /\ Terminal(fn.gs.board, fn.gs.goatsCaptured)
  /\ fn.result = 0 - 20000

\* C20: for every non-terminal board with 4 tigers and goatsCaptured <= 7,
\* evaluatePosition returns, for either aiRole, a value strictly between
\* -20000 and 20000.
C20_HeuristicBelowTerminal ==
  fn.name = "evaluatePosition" /\ ~Terminal(fn.gs.board, fn.gs.goatsCaptured)
    /\ Count(fn.gs.board, "tiger") = TIGERS_TOTAL /\ fn.gs.goatsCaptured <= GOATS_TO_WIN - 1 =>
      0 - 20000 < fn.result /\ fn.result < 20000

\* The nodes holding a piece of role.
On(board, role) == {n \in NodeIds : board[n] = role}

\* The nodes a tiger on t may move to: a step to an empty neighbour or a
\* jump over a goat.
TigerTargets(t, board) == EmptyNeighbours(t, board) \cup JumpDestinations(t, board)

captureOpportunities(board) ==
  Cardinality({p \in On(board, "tiger") \X On(board, EMPTY) : p[2] \in JumpDestinations(p[1], board)})

trappedTigers(board) ==
  Cardinality({t \in On(board, "tiger") : TigerTargets(t, board) = {}})

totalMobility(board) ==
  Cardinality({p \in On(board, "tiger") \X On(board, EMPTY) : p[2] \in TigerTargets(p[1], board)})

\* The unordered pairs of pieces of role on adjacent nodes.
AdjacentPairs(board, role) ==
  {{p[1], p[2]} : p \in {q \in On(board, role) \X On(board, role) : q[2] \in SeqSet(Adj(q[1]))}}

\* C21: for aiRole tiger, evaluatePosition is 2000 * captured, plus 5000
\* from 7 captures on, plus 500 per legal jump destination of a tiger, minus
\* 1500 per tiger without a legal move, plus 30 per legal tiger move, plus 60
\* per unordered pair of tigers on adjacent nodes.
C21_TigerScore ==
  fn.name = "evaluatePosition" /\ fn.aiRole = "tiger" =>
    fn.result = 2000 * fn.gs.goatsCaptured
                + (IF fn.gs.goatsCaptured >= 7 THEN 5000 ELSE 0)
                + 500 * captureOpportunities(fn.gs.board)
                - 1500 * trappedTigers(fn.gs.board)
                + 30 * totalMobility(fn.gs.board)
                + 60 * Cardinality(AdjacentPairs(fn.gs.board, "tiger"))

\* A tiger score in which the bonus, a capture opportunity, a trapped tiger
\* and a pair of adjacent tigers all count.
C21_Witness ==
  /\ fn.name = "evaluatePosition"
  /\ fn.aiRole = "tiger"
  /\ fn.gs.goatsCaptured >= 7
  /\ captureOpportunities(fn.gs.board) >= 1
  /\ trappedTigers(fn.gs.board) >= 1
  /\ Cardinality(AdjacentPairs(fn.gs.board, "tiger")) >= 1

\* The goat score with weight w for every unordered pair of adjacent goats.
GoatScore(gs, w) ==
  0 - 2500 * gs.goatsCaptured
  + 1500 * trappedTigers(gs.board)
  - 50 * totalMobility(gs.board)
  - 1000 * captureOpportunities(gs.board)
  + w * Cardinality(AdjacentPairs(gs.board, "goat"))
  + 70 * Cardinality(On(gs.board, "goat") \cap {8, 12, 13, 14, 18})

\* C22 as stated: for aiRole goat, evaluatePosition is -2500 * captured
\* + 1500 * trappedTigers - 50 * totalMobility - 1000 * captureOpportunities
\* + 40 * connections + 70 per goat on nodes 8, 12, 13, 14, 18, where
\* connections counts each pair of adjacent goats once.
C22_GoatScoreOncePerPair ==
  fn.name = "evaluatePosition" /\ fn.aiRole = "goat" => fn.result = GoatScore(fn.gs, 40)

\* C22 as amended: connections counts each pair of adjacent goats twice, once
\* from each of its two goats, so that a pair is worth 80.
C22_GoatScore ==
  fn.name = "evaluatePosition" /\ fn.aiRole = "goat" => fn.result = GoatScore(fn.gs, 80)

\* A goat score with adjacent goats, a goat on node 18, a trapped tiger and
\* a capture opportunity.
C22_Witness ==
  /\ fn.name = "evaluatePosition"
  /\ fn.aiRole = "goat"
  /\ AdjacentPairs(fn.gs.board, "goat") # {}
  /\ fn.gs.board[18] = "goat"
  /\ trappedTigers(fn.gs.board) >= 1
  /\ captureOpportunities(fn.gs.board) >= 1
  /\ fn.gs.goatsCaptured >= 1

\* The side to move in a call of minimax.
SideToMove(isMaximizing, aiRole) ==
  IF isMaximizing THEN aiRole ELSE IF aiRole = "tiger" THEN "goat" ELSE "tiger"

\* The legal moves that are slides back along previousMove.
Reverses(cands, previousMove) ==
  IF previousMove = <<>> THEN {}
  ELSE {m \in cands : /\ m.from # <<>>
                      /\ previousMove[1].from # <<>>
                      /\ m.from[1] = previousMove[1].to
                      /\ m.to = previousMove[1].from[1]}

\* The entry of the outermost call of a traced search.
TopCall == CHOOSE c \in fn.calls : c.depth = fn.depth

C23_WitnessOnly ==
  /\ fn.name = "minimaxTrace"
  /\ TopCall.kind = "loop"
  /\ TopCall.candidates = 1
  /\ Reverses(LegalMoves(fn.gs.board, SideToMove(fn.isMaximizing, fn.aiRole),
                         fn.gs.goatsPlaced), fn.previousMove) # {}
  /\ TopCall.searched = 1

\* C25: when minimax is called at depth > 0 on a board that is not terminal
\* and on which the side to move has no legal move, it returns -20000 if
\* that side is aiRole and 20000 if it is the opponent, and makes no
\* recursive call.
C25_NoMovesIsLoss ==
  fn.name = "minimaxTrace" /\ fn.depth > 0
    /\ ~Terminal(fn.gs.board, fn.gs.goatsCaptured)
    /\ LegalMoves(fn.gs.board, SideToMove(fn.isMaximizing, fn.aiRole), fn.gs.goatsPlaced) = {} =>
      /\ fn.result = IF SideToMove(fn.isMaximizing, fn.aiRole) = fn.aiRole
                     THEN 0 - 20000 ELSE 20000
      /\ Cardinality(fn.calls) = 1
      /\ TopCall.searched = 0 /\ TopCall.called = {}

\* The goats cannot move, the tiger is aiRole, and the call at depth 2
\* returns 20000.
C25_Witness ==
  /\ fn.name = "minimaxTrace"
  /\ fn.depth = 2
  /\ fn.aiRole = "tiger" /\ ~fn.isMaximizing
  /\ ~Terminal(fn.gs.board, fn.gs.goatsCaptured)
  /\ LegalMoves(fn.gs.board, "goat", fn.gs.goatsPlaced) = {}
  /\ fn.result = 20000

\* C24: for every root move getMinimaxMove hands to minimax, the score of
\* the search with cut-offs equals the score of the same search without
\* cut-offs, so the best-scoring root moves are the same.
C24_PruningKeepsScores ==
  fn.name = "rootScores" =>
    /\ \A k \in 1..fn.scored : fn.trace[k].score = fn.plain[k].score
    /\ \A k \in 1..fn.scored : \A c \in fn.plain[k].calls : ~c.cut

\* A search in which a cut-off left candidates unsearched.
C24_Witness ==
  /\ fn.name = "rootScores"
  /\ \E k \in 1..fn.scored :
       \E c \in fn.trace[k].calls :
         c.cut /\ c.searched < c.candidates - Len(c.skipped)

\* The immediate-win return of getMinimaxMove applies: the tiger has a
\* capture that brings it to GOATS_TO_WIN.
FastPathWin(gs, role) ==
  role = "tiger" /\ gs.goatsCaptured + 1 >= GOATS_TO_WIN /\ Captures(gs.board) # {}

\* C26: when the immediate-win return does not apply, every move
\* getMinimaxMove may return is a member of getAllPossibleMoves(board, role,
\* goatsPlaced) whose minimax score is the largest of the scores of all root
\* moves, and it returns null exactly when that list is empty.
C26_BestRootMove ==
  fn.name = "rootScores" /\ ~FastPathWin(fn.gs, fn.role) =>
    LET all == getAllPossibleMoves(fn.gs.board, fn.role, fn.gs.goatsPlaced)
    IN /\ fn.scored = Len(all)
       /\ SeqSet(fn.moves) = SeqSet(all)
       /\ \A r \in DOMAIN fn.result :
            \E k \in DOMAIN fn.moves :
              /\ fn.moves[k] = fn.result[r]
              /\ \A j \in DOMAIN fn.moves : fn.trace[j].score <= fn.trace[k].score
       /\ fn.result = <<>> <=> all = <<>>

\* A search at the depth of the hard tier whose root moves differ in score;
\* the moves returned are some, not all, of them.
C26_Witness ==
  /\ fn.name = "rootScores"
  /\ fn.depth = aiCall(fn.gs, "hard", fn.role).depth
  /\ fn.result # <<>>
  /\ Len(fn.result) < Len(fn.moves)
  /\ \E j, k \in DOMAIN fn.moves : fn.trace[j].score < fn.trace[k].score

\* getMinimaxMove returns null: the side has no move.
C26_WitnessNull ==
  /\ fn.name = "rootScores"
  /\ fn.result = <<>>
  /\ ~fn.gs.gameOver

\* The calls of the searches with and without cut-offs of all root moves.
RootCalls == UNION {fn.trace[k].calls \cup fn.plain[k].calls : k \in 1..fn.scored}

\* C27: the search of the hard tier is run with depth 4 or 5; minimax is
\* first called with that depth less one, every recursive call receives the
\* depth of its caller less one, no call receives a negative depth or a
\* goatsPlaced above 18, and so no call lies deeper than the configured
\* depth.
C27_SearchBounded ==
  fn.name = "rootScores" =>
       /\ aiCall(fn.gs, "hard", fn.role).routine = "getMinimaxMove" =>
            aiCall(fn.gs, "hard", fn.role).depth \in {4, 5} \cap RootDepths(fn.gs, fn.role)
       /\ \A k \in 1..fn.scored :
            fn.trace[k].depth = fn.depth - 1 /\ fn.plain[k].depth = fn.depth - 1
       /\ \A c \in RootCalls :
            /\ c.called \subseteq {c.depth - 1}
            /\ c.depth >= 0
            /\ c.depth <= fn.depth - 1
            /\ c.goatsPlaced <= GOATS_TOTAL
            /\ c.goatsPlaced >= fn.gs.goatsPlaced

\* A search of the configured depth from a position with one goat left to
\* place: the goat is placed inside the search and depth 0 is reached.
C27_Witness ==
  /\ fn.name = "rootScores"
  /\ fn.depth = aiCall(fn.gs, "hard", fn.role).depth
  /\ aiCall(fn.gs, "hard", fn.role).routine = "getMinimaxMove"
  /\ fn.gs.goatsPlaced = GOATS_TOTAL - 1
  /\ \E c \in RootCalls : c.depth = 0 /\ c.kind = "leaf" /\ c.goatsPlaced = GOATS_TOTAL
  /\ \E c \in RootCalls : c.kind = "loop" /\ c.called = {c.depth - 1}

\* C28: after a restart (the game state is the initial one again, as it is
\* after Reset, Restart or a change of mode, AI role or difficulty) the
\* first board that differs from the initial board is the initial board
\* with one goat placed, with goatsPlaced = 1 and goatsCaptured = 0: no move
\* computed from the position before the restart is applied.
C28_NoStaleMoveAfterRestart ==
  [][(/\ gameState.board = INITIAL_BOARD
      /\ gameState.goatsPlaced = 0
      /\ gameState'.board # INITIAL_BOARD)
     => /\ \E n \in NodeIds : /\ INITIAL_BOARD[n] = EMPTY
                              /\ gameState'.board = [INITIAL_BOARD EXCEPT ![n] = "goat"]
        /\ gameState'.goatsPlaced = 1
        /\ gameState'.goatsCaptured = 0]_vars

\* C29: in a game against the computer, whenever the AI is to move and the
\* game is not over, the timer of the AI effect is pending and its callback
\* has a move to apply; with the timer firing and no reset or surrender in
\* between, the game does not stay in a state with the AI to move.
C29_AIMovePending ==
  config.mode = "pve" /\ gameState.turn = config.aiRole /\ ~gameState.gameOver =>
    /\ timer # <<>>
    /\ calculateAIMoveOpen(timer[1].gameState, timer[1].difficulty, timer[1].aiRole) # <<>>

\* The step changes the board by a move, not by a restart.
MoveStep ==
  /\ gameState'.board # gameState.board
  /\ ~(gameState'.board = INITIAL_BOARD /\ gameState'.goatsPlaced = 0)

\* C30: a game starts with the goat to move; every move is made with a piece
\* of the side whose turn it is and hands the turn to the other side, and
\* the turn changes in no other way within a game, so the sides move in
\* turn: goat, tiger, goat, ...
C30_TurnsAlternate ==
  /\ gameState.turn = "goat"
  /\ [][/\ gameState'.board = INITIAL_BOARD /\ gameState'.goatsPlaced = 0 =>
             gameState'.turn = "goat"
        /\ MoveStep =>
             /\ gameState'.turn # gameState.turn
             /\ \E n \in NodeIds : /\ gameState'.board[n] = gameState.turn
                                   /\ gameState.board[n] # gameState.turn
        /\ gameState'.turn # gameState.turn =>
             MoveStep \/ (gameState'.board = INITIAL_BOARD /\ gameState'.goatsPlaced = 0)]_vars

\* A game against the computer in which the tiger has captured a goat and
\* the turn has passed to the goat.
C30_Witness ==
  /\ config.mode = "pve"
  /\ gameState.goatsCaptured >= 1
  /\ gameState.turn = "goat"
  /\ ~gameState.gameOver

\* The step restores the initial game state (Reset, Restart, Play Again, or a
\* change of mode, AI role or difficulty).
ResetStep == gameState' = InitialGameState

\* C31: winner is non-null exactly when gameOver is true, and once gameOver
\* is true no step other than a reset changes the board, the turn,
\* goatsPlaced, goatsCaptured, gameOver or the winner.
C31_GameOverAbsorbing ==
  /\ [](gameState.gameOver <=> gameState.winner # NULL)
  /\ [][gameState.gameOver /\ ~ResetStep =>
          /\ gameState'.board = gameState.board
          /\ gameState'.turn = gameState.turn
          /\ gameState'.goatsPlaced = gameState.goatsPlaced
          /\ gameState'.goatsCaptured = gameState.goatsCaptured
          /\ gameState'.gameOver
          /\ gameState'.winner = gameState.winner]_vars

\* A game against the computer ended by Surrender while the AI was to move.
C31_Witness ==
  /\ config.mode = "pve"
  /\ gameState.gameOver
  /\ gameState.turn = config.aiRole
  /\ gameState.goatsCaptured < GOATS_TO_WIN
  /\ SomeTigerCanMove(gameState.board)
  /\ gameState.goatsPlaced >= 1

\* The node on which the step has put a piece of the side to move.
Destination == {n \in NodeIds : gameState.board[n] = EMPTY /\ gameState'.board[n] = gameState.turn}

\* C32: in a game against the computer no click acts while the AI is to
\* move; a move applied while the AI is to move is the move of the AI
\* effect's timer (calculateAIMove), and a move applied while the human is
\* to move is made by a click on its destination and not by the timer.
C32_ClicksOnlyOnHumanTurn ==
  [][config.mode = "pve" =>
       /\ gameState.turn = config.aiRole => ~NodeClick
       /\ MoveStep /\ gameState.turn = config.aiRole => AITimer
       /\ MoveStep /\ gameState.turn # config.aiRole =>
            /\ timer = <<>>
            /\ \E id \in Destination : handleNodeClick(id)]_vars

\* A game against the computer in which the human and the AI have both
\* moved and the AI is to move again, its timer pending.
C32_Witness ==
  /\ config.mode = "pve"
  /\ gameState.turn = config.aiRole
  /\ timer # <<>>
  /\ timer[1].gameState = gameState
  /\ gameState.goatsPlaced >= 2
  /\ gameState.board # [n \in NodeIds |-> IF n \in {0, 3, 8, 13} /\ gameState.board[n] # "goat"
                                          THEN "tiger" ELSE gameState.board[n]]

\* C33: in a game against the computer, pressing Surrender ends the game
\* with the AI's role as winner, whichever side is to move.
C33_SurrenderGivesAIWin ==
  [][config.mode = "pve" /\ Surrender =>
       gameState'.gameOver /\ gameState'.winner = config.aiRole]_vars

\* getAllPossibleMoves has listed the legal moves of the side to move in a
\* position of play that is not over.
MovesToMove ==
  /\ fn.name = "getAllPossibleMoves"
  /\ fn.role = fn.gs.turn
  /\ ~fn.gs.gameOver

\* C34: in every position of play that is not over, for every legal move of
\* the side to move, the board and the captured count that executeMove
\* (inline jump-path table) writes equal nextBoard and nextCaptured of
\* simulateMove (JUMP_PATHS).
C34_ExecuteAgreesWithSimulate ==
  MovesToMove =>
    \A m \in SeqSet(fn.result) :
      \A applied \in {executeMove(fn.gs, fn.gs, m.from, m.to)} :
        \A sim \in {simulateMove(fn.gs.board, m, fn.gs.turn, fn.gs.goatsCaptured)} :
          /\ applied.board = sim.nextBoard
          /\ applied.goatsCaptured = sim.nextCaptured

\* The tiger is to move and one of its legal moves takes a goat, while
\* another of its legal moves is a plain slide.
C34_Witness ==
  /\ MovesToMove
  /\ fn.gs.turn = "tiger"
  /\ \E m \in SeqSet(fn.result) :
       executeMove(fn.gs, fn.gs, m.from, m.to).goatsCaptured = fn.gs.goatsCaptured + 1
  /\ \E m \in SeqSet(fn.result) :
       executeMove(fn.gs, fn.gs, m.from, m.to).goatsCaptured = fn.gs.goatsCaptured

\* The pairs of end nodes of the jump paths, in both directions.
JumpEnds == {<<JUMP_PATHS[i][1], JUMP_PATHS[i][3]>> : i \in DOMAIN JUMP_PATHS}
            \cup {<<JUMP_PATHS[i][3], JUMP_PATHS[i][1]>> : i \in DOMAIN JUMP_PATHS}

Adjacent(a, b) == \E k \in DOMAIN ADJACENCY[a] : ADJACENCY[a][k] = b

\* C35: every move getValidMoves produces for a tiger is classified as a
\* jump by isJump exactly when simulateMove takes a goat off the board (and
\* counts it); no pair of jump-path end nodes is an adjacency edge, each
\* pair of end nodes belongs to at most one jump path, and the middle node
\* of each path is adjacent to both of its ends.
C35_JumpIffCapture ==
  /\ fn.name = "getValidMoves" /\ fn.turn = "tiger" /\ fn.id \in NodeIds /\ fn.board[fn.id] = "tiger" =>
       \A k \in DOMAIN fn.result :
         LET move == Slide(fn.id, fn.result[k])
             sim == simulateMove(fn.board, move, "tiger", 0)
         IN /\ isJump(fn.board, move)
                 <=> Cardinality(On(sim.nextBoard, "goat")) < Cardinality(On(fn.board, "goat"))
            /\ isJump(fn.board, move) <=> sim.nextCaptured = 1
            /\ isJump(fn.board, move) <=> <<fn.id, fn.result[k]>> \in JumpEnds
  /\ fn.name = "input" =>
       /\ \A e \in JumpEnds : ~Adjacent(e[1], e[2])
       /\ \A i, j \in DOMAIN JUMP_PATHS :
            <<JUMP_PATHS[i][1], JUMP_PATHS[i][3]>>
               \in {<<JUMP_PATHS[j][1], JUMP_PATHS[j][3]>>, <<JUMP_PATHS[j][3], JUMP_PATHS[j][1]>>}
            => i = j
       /\ \A i \in DOMAIN JUMP_PATHS :
            /\ Adjacent(JUMP_PATHS[i][2], JUMP_PATHS[i][1])
            /\ Adjacent(JUMP_PATHS[i][2], JUMP_PATHS[i][3])
            /\ Adjacent(JUMP_PATHS[i][1], JUMP_PATHS[i][2])
            /\ Adjacent(JUMP_PATHS[i][3], JUMP_PATHS[i][2])

\* getValidMoves has produced, for a tiger, a slide to a neighbour and a
\* jump against the direction in which the path is written in JUMP_PATHS.
C35_Witness ==
  /\ fn.name = "getValidMoves" /\ fn.turn = "tiger" /\ fn.id \in NodeIds /\ fn.board[fn.id] = "tiger"
  /\ \E k \in DOMAIN fn.result : Adjacent(fn.id, fn.result[k])
  /\ \E k \in DOMAIN fn.result :
       \E i \in DOMAIN JUMP_PATHS :
         /\ JUMP_PATHS[i][3] = fn.id /\ JUMP_PATHS[i][1] = fn.result[k]
         /\ fn.board[JUMP_PATHS[i][2]] = "goat"

\* The minimax calls made below the root loop of getMinimaxMove, with and
\* without the cut-off.
TraceCalls == UNION {fn.trace[k].calls \cup fn.plain[k].calls : k \in DOMAIN fn.trace}

\* C36: in every minimax call reachable from getMinimaxMove the piece that
\* made previousMove belongs to the other side, no candidate of the side to
\* move is the reverse of previousMove, the repetition check skips no move,
\* every call that enters its loop searches at least one move, and no root
\* score is -10000 or 10000.
C36_RepetitionCheckNeverSkips ==
  fn.name = "rootScores" =>
    /\ \A c \in TraceCalls :
         c.kind = "loop" =>
           /\ c.previousBy = (IF c.turn = "tiger" THEN "goat" ELSE "tiger")
           /\ c.reverses = 0
           /\ c.skipped = <<>>
           /\ c.searched >= 1
    /\ \A k \in DOMAIN fn.trace :
         /\ fn.trace[k].score \notin {0 - 10000, 10000}
         /\ fn.plain[k].score \notin {0 - 10000, 10000}

\* A search for the goat, three plies deep or more, in which the goat is
\* to move again after a tiger's reply, all goats are placed, and the goat
\* has more than one slide to choose from.
C36_Witness ==
  /\ fn.name = "rootScores"
  /\ fn.role = "goat"
  /\ fn.depth >= 3
  /\ \E c \in TraceCalls :
       /\ c.kind = "loop" /\ c.turn = "goat" /\ c.depth = fn.depth - 2
       /\ c.goatsPlaced = GOATS_TOTAL /\ c.candidates > 1

\* C37: in every reachable game state with goatsPlaced < 18 some node is
\* empty (the board holds at most four tigers and goatsPlaced goats), so
\* getAllPossibleMoves has a placement for the goat; and whenever the AI
\* timer is pending with getBestPlacementGoat as its routine, the node that
\* routine returns for the timer's position is a node of the board, not -1.
C37_PlacementAlwaysPossible ==
  /\ gameState.goatsPlaced < GOATS_TOTAL =>
       /\ \E n \in NodeIds : gameState.board[n] = EMPTY
       /\ Cardinality(On(gameState.board, "tiger")) <= TIGERS_TOTAL
       /\ Cardinality(On(gameState.board, "goat")) <= gameState.goatsPlaced
       /\ gameState.turn = "goat" =>
            getAllPossibleMoves(gameState.board, "goat", gameState.goatsPlaced) # <<>>
  /\ timer # <<>> =>
       \A c \in {timer[1]} :
         aiCall(c.gameState, c.difficulty, c.aiRole).routine = "getBestPlacementGoat" =>
           /\ c.gameState.goatsPlaced < GOATS_TOTAL
           /\ \A m \in SeqSet(getBestPlacementGoat(c.gameState.board)) : m.to \in NodeIds

\* The hard goat AI is about to place its tenth goat or a later one: its
\* timer is pending on the current position and getBestPlacementGoat is the
\* routine it will call.
C37_Witness ==
  /\ ~gameState.gameOver
  /\ timer # <<>>
  /\ timer[1].gameState = gameState
  /\ aiCall(gameState, timer[1].difficulty, timer[1].aiRole).routine = "getBestPlacementGoat"
  /\ gameState.turn = "goat"
  /\ gameState.goatsPlaced >= 9
  /\ gameState.goatsPlaced < GOATS_TOTAL

====
